---- MODULE Spec2Model ----
(***************************************************************************)
(* Verification model of the data-acquisition and caching layer of the     *)
(* financial assistant backend (app/services, app/utils).                   *)
(*                                                                          *)
(* Three cache subsystems share no state in the source:                     *)
(*   "eod"  EODHDService.get_eod_data          (cache/eodhd/<key>.json and  *)
(*          <key>_failed.txt)                                               *)
(*   "us"   USStockService + EODHDService.get_batch_latest_eod              *)
(*          (_us_quote_cache and cache/eodhd/<sym>.US_latest.json)          *)
(*   "vn"   stock_service (_quote_cache, VNStock table, price board)        *)
(* A behaviour of Spec exercises one of them, chosen in Init (focus), so    *)
(* that TLC explores the sum and not the product of their state spaces.     *)
(* Time is in seconds; the clock is read at the instants of Times.          *)
(*                                                                          *)
(* Two more subsystems have specifications of their own:                    *)
(*   "limiter"  vnstock_helper.VNStockRateLimiter      (SpecLimiter)        *)
(*   "news"     NewsSearchService.search_news          (SpecNews)           *)
(***************************************************************************)
EXTENDS Integers, Sequences, FiniteSets, TLC

VARIABLES
    focus,          \* subsystem exercised by this behaviour
    now,            \* time.time() / datetime.now()
    eod_cache,      \* cache/eodhd/<cache_key>.json        (get_eod_data)
    eod_failed,     \* cache/eodhd/<cache_key>_failed.txt  (get_eod_data)
    latest_cache,   \* cache/eodhd/<sym>.US_latest.json    (get_batch_latest_eod)
    us_quote_cache, \* stock_us_service._us_quote_cache
    quote_cache,    \* stock_service._quote_cache
    vn_db,          \* VNStock rows (latest per symbol)
    req,            \* the operation last invoked and its arguments
    calls,          \* provider calls issued by that operation, in order
    ret,            \* what that operation returned
    clock,          \* time.time() as read by the rate limiter, in ticks
    requests,       \* VNStockRateLimiter.requests (call timestamps)
    lock,           \* VNStockRateLimiter.lock: the thread holding it, or 0
    pc,             \* where each thread is in wait_if_needed
    wake,           \* the instant each sleeping thread's time.sleep ends
    started,        \* wait_if_needed calls begun so far
    stamps,         \* every timestamp ever appended to requests, in order
    news_cfg,       \* the API keys set in the environment (config.py)
    news_pc,        \* search_news: the provider whose call is in flight, or "idle"
    news_query,     \* search_news: query
    news_max,       \* search_news: max_results
    news_results,   \* search_news: results, the raw records collected so far
    news_log,       \* provider calls and completions of the current search_news
    news_ret,       \* what the last search_news returned
    news_prior,     \* per query: an earlier search_news saw Tavily fail and a
                    \* later provider return records
    dd_in,          \* news dedupe: the gathered records handed to _format_results
    dd_max,         \* news dedupe: max_results
    dd_fmt,         \* news dedupe: what _format_results returned
    dd_out,         \* news dedupe: the "results" of the /news/search answer
    dd_pc,          \* news dedupe: "idle", "formatted" or "answered"
    nz_kind,        \* news_filter: "none", or "url" / "title" once applied
    nz_in,          \* news_filter: the two urls or titles given
    nz_out,         \* news_filter: what canonical_url or hash_title made of them
    rt_cfg,         \* retry_on_error: the decorator's max_retries and delay
    rt_pc,          \* retry_on_error: "idle", "loop" or "done"
    rt_log,         \* retry_on_error: how each invocation of func ended
    rt_sleeps,      \* retry_on_error: the arguments of time.sleep, in order
    rt_ret,         \* retry_on_error: what the wrapper returned
    fl_op,          \* exception flow: the operation that ran, "none" before
    fl_in,          \* exception flow: what failed while it ran
    fl_out,         \* exception flow: how the operation ended for its caller
    fb_pc,          \* fetch_vn_stock_data_batch: "idle", "gathering" or "returned"
    fb_task,        \* fetch_vn_stock_data_batch: where each fetch_single task is
    fb_sem,         \* fetch_vn_stock_data_batch: the value of the semaphore
    ch_sessions,    \* chat: _chat_sessions, the history of each session id, NoSession if absent
    ch_req,         \* chat: the /chat/message requests awaiting process_user_query
    ch_last,        \* chat: the last operation and the session id it worked on
    sm_now,         \* time.time() seen by the summarizer
    sm_last,        \* _last_api_call
    sm_sem,         \* the semaphore of batch_summarize_articles
    sm_task,        \* each summarization: where it is, how it was called, when it wakes
    sm_calls,       \* the times at which generate_content was called, in order
    em_store,       \* the news table: the rows of NewsArticle
    em_req,         \* each embed request: where it is, the canonical URL it holds
    gold_in,        \* get_all_gold_prices: what the two gold providers did
    gold_ret        \* get_all_gold_prices: the returned dict

quoteVars == <<now, eod_cache, eod_failed, latest_cache,
               us_quote_cache, quote_cache, vn_db, req, calls, ret>>

limiterVars == <<clock, requests, lock, pc, wake, started, stamps>>

newsVars == <<news_cfg, news_pc, news_query, news_max, news_results,
              news_log, news_ret, news_prior>>

goldVars == <<gold_in, gold_ret>>

dedupeVars == <<dd_in, dd_max, dd_fmt, dd_out, dd_pc>>

normVars == <<nz_kind, nz_in, nz_out>>

retryVars == <<rt_cfg, rt_pc, rt_log, rt_sleeps, rt_ret>>

flowVars == <<fl_op, fl_in, fl_out>>

fetchVars == <<fb_pc, fb_task, fb_sem>>

chatVars == <<ch_sessions, ch_req, ch_last>>

summaryVars == <<sm_now, sm_last, sm_sem, sm_task, sm_calls>>

embedVars == <<em_store, em_req>>

\* the state of the stateless services, each exercised by its own specification

serviceVars == <<goldVars, dedupeVars, normVars, retryVars, flowVars, fetchVars, chatVars, summaryVars, embedVars>>

\* what the quote operations leave alone
notQuoteVars == <<limiterVars, newsVars, serviceVars>>

\* what the rate limiter leaves alone
notLimiterVars == <<quoteVars, newsVars, serviceVars>>

\* what the news search leaves alone
notNewsVars == <<quoteVars, limiterVars, serviceVars>>

coreVars == <<quoteVars, limiterVars, newsVars>>

\* what the gold service leaves alone
notGoldVars == <<coreVars, dedupeVars, normVars, retryVars, flowVars, fetchVars, chatVars, summaryVars, embedVars>>

\* what the news dedupe leaves alone
notDedupeVars == <<coreVars, goldVars, normVars, retryVars, flowVars, fetchVars, chatVars, summaryVars, embedVars>>

\* what the news_filter functions leave alone
notNormVars == <<coreVars, goldVars, dedupeVars, retryVars, flowVars, fetchVars, chatVars, summaryVars, embedVars>>

\* what the exception flow of the operations leaves alone
notFlowVars == <<coreVars, goldVars, dedupeVars, normVars, retryVars, fetchVars, chatVars, summaryVars, embedVars>>

\* what fetch_vn_stock_data_batch leaves alone
notFetchVars == <<coreVars, goldVars, dedupeVars, normVars, retryVars, flowVars, chatVars, summaryVars, embedVars>>

\* what the chat router leaves alone
notChatVars == <<coreVars, goldVars, dedupeVars, normVars, retryVars, flowVars, fetchVars, summaryVars, embedVars>>

\* what a summarization leaves alone
notSummaryVars == <<coreVars, goldVars, dedupeVars, normVars, retryVars, flowVars, fetchVars, chatVars, embedVars>>

\* what an embed request leaves alone
notEmbedVars == <<coreVars, goldVars, dedupeVars, normVars, retryVars, flowVars, fetchVars, chatVars, summaryVars>>

\* what a retry_on_error wrapper leaves alone
notRetryVars == <<coreVars, goldVars, dedupeVars, normVars, flowVars, fetchVars, chatVars, summaryVars, embedVars>>

vars == <<focus, quoteVars, limiterVars, newsVars, serviceVars>>

----------------------------------------------------------------------------
(* Bounds and program constants *)

Symbols == {"AAA", "BBB"}

\* the instants at which the clock is read, chosen so that ages below, at
\* and above every TTL occur:
\*   eod     FAILED_CACHE_TTL = 1800 and CACHE_TTL = 86400 (ages 900, 1800,
\*           84600, 85500, 86400)
\*   us, vn  _cache_ttl = 300 and CACHE_TTL = one day = 86400 (ages 150, 300,
\*           86100, 86250, 86400)
Times(f) == IF f = "eod" THEN {0, 900, 1800, 86400} ELSE {0, 150, 300, 86400}

\* the symbol lists a caller may pass (already upper-cased), repeats included
Requests == {<<a>> : a \in Symbols} \cup {<<a, b>> : a, b \in Symbols}

CACHE_TTL == 86400

FAILED_CACHE_TTL == 1800

----------------------------------------------------------------------------
(* Values *)

\* a file that does not exist / a dict key that is absent
NoFile == [present |-> FALSE, mtime |-> 0, fetched |-> 0, shape |-> "-"]

\* an entry written at time t holding the payload fetched at time f
Entry(t, f, shape) == [present |-> TRUE, mtime |-> t, fetched |-> f, shape |-> shape]

\* Python None as an operation's result for one key
None == [kind |-> "None", fetched |-> 0, shape |-> "-"]

\* the key is not in the returned dict at all
Absent == [kind |-> "absent", fetched |-> 0, shape |-> "-"]

\* a payload: the provider's answer obtained at time t, formatted as `shape`
Data(t, shape) == [kind |-> "data", fetched |-> t, shape |-> shape]

NoReq == [op |-> "-", syms |-> <<>>]

NoRet == [s \in Symbols |-> Absent]

\* result of a single-key operation on key k
Single(k, v) == [s \in Symbols |-> IF s = k THEN v ELSE Absent]

Range(q) == {q[i] : i \in 1..Len(q)}

----------------------------------------------------------------------------
(* EODHDService.get_eod_data *)

\* mutant of _is_cache_valid: a fresh file is never a hit
_is_cache_valid_never(f) == FALSE

_is_cache_valid(f) == f.present /\ now - f.mtime < CACHE_TTL

\* mutant of failed_recently: the negative entry is ignored
failed_recently_ignored(f) == FALSE

\* lines 133-138: failed_cache_path.exists() and age < FAILED_CACHE_TTL
failed_recently(f) == f.present /\ now - f.mtime < FAILED_CACHE_TTL

\* outcomes of the HTTP call of lines 157-265 that touch <key>_failed.txt
EodTouchOutcomes == {"http_error", "no_data", "no_date_column",
                     "all_dates_invalid", "year_lt_2000", "timeout",
                     "request_error"}

\* "unexpected": an exception that reaches the outer handler before the cache
\*   is written (no 'close' column, line 243): None, nothing touched.
\* "missing_column": 'date' and 'close' are there but one of open/high/low/
\*   volume is not: the cache file is written (247), the failed file removed
\*   (250) and line 255 raises KeyError: None.
EodOutcomes == EodTouchOutcomes \cup {"ok", "unexpected", "missing_column"}

EodCall(k) == [provider |-> "eodhd_eod", syms |-> <<k>>]

get_eod_data(k, outcome) ==
    /\ focus = "eod"
    /\ req' = [op |-> "get_eod_data", syms |-> <<k>>]
    /\ UNCHANGED notQuoteVars
    /\ UNCHANGED <<focus, now, latest_cache, us_quote_cache,
                   quote_cache, vn_db>>
    /\ IF _is_cache_valid(eod_cache[k])
       THEN \* 119-129: the cached frame, or KeyError -> outer except -> None
            /\ ret' = Single(k, IF eod_cache[k].shape = "eod"
                                THEN Data(eod_cache[k].fetched, "eod")
                                ELSE None)
            /\ calls' = <<>>
            /\ UNCHANGED <<eod_cache, eod_failed>>
       ELSE IF failed_recently(eod_failed[k])
       THEN /\ ret' = Single(k, None)
            /\ calls' = <<>>
            /\ UNCHANGED <<eod_cache, eod_failed>>
       ELSE /\ calls' = <<EodCall(k)>>
            /\ CASE outcome \in EodTouchOutcomes ->
                      /\ eod_failed' = [eod_failed EXCEPT ![k] =
                             Entry(now, now, "failed")]
                      /\ ret' = Single(k, None)
                      /\ UNCHANGED eod_cache
                 [] outcome = "unexpected" ->
                      /\ ret' = Single(k, None)
                      /\ UNCHANGED <<eod_cache, eod_failed>>
                 [] outcome = "ok" ->
                      /\ eod_cache' = [eod_cache EXCEPT ![k] =
                             Entry(now, now, "eod")]
                      /\ eod_failed' = [eod_failed EXCEPT ![k] = NoFile]
                      /\ ret' = Single(k, Data(now, "eod"))
                 [] outcome = "missing_column" ->
                      /\ eod_cache' = [eod_cache EXCEPT ![k] =
                             Entry(now, now, "eod_missing_column")]
                      /\ eod_failed' = [eod_failed EXCEPT ![k] = NoFile]
                      /\ ret' = Single(k, None)

----------------------------------------------------------------------------
(* EODHDService.get_batch_latest_eod *)

\* What the bulk endpoint call of line 308 does:
\*   ok             status 200; items are the codes of the response, in order
\*   http_error     status other than 200
\*   timeout        requests.exceptions.Timeout (handled at 336)
\*   request_error  any other RequestException, e.g. ConnectionError: not
\*                  handled at 336, reaches the outer handler at 345
\*   malformed_item status 200; the items are processed in order and the one
\*                  after them makes float()/item.get raise: outer handler
BatchOutcomes ==
    [kind : {"ok", "malformed_item"}, items : SUBSET Symbols]
    \cup [kind : {"http_error", "timeout", "request_error"}, items : {{}}]

\* ok_1970: status 200, every item dated 1970-01-01 (lines 312-327 copy
\* item.get('date') without looking at it)
DatedBatchOutcomes ==
    BatchOutcomes \cup [kind : {"ok_1970"}, items : SUBSET Symbols \ {{}}]

\* the payload written and returned for an item of outcome o
item_shape(o) == IF o.kind = "ok_1970" THEN "latest_1970" ELSE "latest"

BatchCall(syms) == [provider |-> "eodhd_bulk", syms |-> syms]

\* lines 285-289: a valid latest file whose content is read back
latest_hit(s) == _is_cache_valid(latest_cache[s])

\* lines 282-291
batch_uncached(symbols) == SelectSeq(symbols, LAMBDA s : ~latest_hit(s))

\* the dict get_batch_latest_eod returns (lines 279-347)
batch_results(symbols, o) ==
    IF batch_uncached(symbols) # <<>> /\ o.kind \in {"request_error", "malformed_item"}
    THEN \* 345-347: {symbol: None for symbol in symbols}
         [s \in Symbols |-> IF s \in Range(symbols) THEN None ELSE Absent]
    ELSE [s \in Symbols |->
            IF s \notin Range(symbols) THEN Absent
            ELSE IF latest_hit(s)
            THEN Data(latest_cache[s].fetched, latest_cache[s].shape)
            ELSE IF o.kind \in {"ok", "ok_1970"} /\ s \in o.items
            THEN Data(now, item_shape(o))
            ELSE None]

\* mutant of batch_calls: one call per uncached symbol
batch_calls_each(symbols) ==
    [i \in 1..Len(batch_uncached(symbols)) |-> BatchCall(<<batch_uncached(symbols)[i]>>)]

\* the provider calls get_batch_latest_eod issues (lines 293-308)
batch_calls(symbols) ==
    IF batch_uncached(symbols) = <<>> THEN <<>>
    ELSE <<BatchCall(batch_uncached(symbols))>>

\* the latest files after the call (lines 329-332): every processed item whose
\* code is an uncached symbol is written
batch_written(symbols, o) ==
    [s \in Symbols |->
        IF /\ batch_uncached(symbols) # <<>>
           /\ o.kind \in {"ok", "ok_1970", "malformed_item"}
           /\ s \in o.items
           /\ s \in Range(batch_uncached(symbols))
        THEN Entry(now, now, item_shape(o))
        ELSE latest_cache[s]]

get_batch_latest_eod(symbols, o) ==
    /\ focus \in {"us", "dates"}
    /\ req' = [op |-> "get_batch_latest_eod", syms |-> symbols]
    /\ calls' = batch_calls(symbols)
    /\ ret' = batch_results(symbols, o)
    /\ latest_cache' = batch_written(symbols, o)
    /\ UNCHANGED notQuoteVars
    /\ UNCHANGED <<focus, now, eod_cache, eod_failed, us_quote_cache,
                   quote_cache, vn_db>>

----------------------------------------------------------------------------
(* stock_us_service *)

US_cache_ttl == 300

\* the keys of the dict each quote operation builds: get_us_stock_price
\* (stock_us_service 55-68), get_multiple_us_stock_quotes (138-147),
\* get_latest_stock_price (stock_service 174-182 and 208-216),
\* get_multiple_vn_stock_quotes (317-325)
fields(shape) ==
    CASE shape = "us_single" ->
            {"symbol", "price", "current_price", "high", "low", "open",
             "open_price", "previous_close", "change", "change_percent",
             "volume", "timestamp"}
      [] shape = "us_batch" ->
            {"symbol", "price", "current_price", "high", "low", "open",
             "volume", "timestamp"}
      [] shape = "vn_single" ->
            {"symbol", "open_price", "close_price", "high", "low", "volume",
             "timestamp"}
      [] shape = "vn_batch" ->
            {"symbol", "price", "change", "change_percent", "volume", "high",
             "low"}
      [] OTHER -> {}

\* the shape an operation gives the quotes it builds on a cache miss
own_shape(op) ==
    CASE op = "get_us_stock_price" -> "us_single"
      [] op = "get_multiple_us_stock_quotes" -> "us_batch"
      [] op = "get_latest_stock_price" -> "vn_single"
      [] op = "get_multiple_vn_stock_quotes" -> "vn_batch"
      [] OTHER -> "-"

\* _get_cached_us_quote(symbol) is not None (lines 16-22)
_get_cached_us_quote(symbol) ==
    /\ us_quote_cache[symbol].present
    /\ now - us_quote_cache[symbol].mtime < US_cache_ttl

\* USStockService.get_us_stock_price (lines 36-77)
get_us_stock_price(symbol, o) ==
    /\ focus = "us"
    /\ req' = [op |-> "get_us_stock_price", syms |-> <<symbol>>]
    /\ UNCHANGED notQuoteVars
    /\ UNCHANGED <<focus, now, eod_cache, eod_failed, quote_cache, vn_db>>
    /\ IF _get_cached_us_quote(symbol)
       THEN /\ ret' = Single(symbol, Data(us_quote_cache[symbol].fetched,
                                          us_quote_cache[symbol].shape))
            /\ calls' = <<>>
            /\ UNCHANGED <<latest_cache, us_quote_cache>>
       ELSE LET data == batch_results(<<symbol>>, o)[symbol] IN
            /\ calls' = batch_calls(<<symbol>>)
            /\ latest_cache' = batch_written(<<symbol>>, o)
            /\ IF data.kind = "data"
               THEN /\ ret' = Single(symbol, Data(data.fetched, "us_single"))
                    /\ us_quote_cache' = [us_quote_cache EXCEPT ![symbol] =
                                            Entry(now, data.fetched, "us_single")]
               ELSE /\ ret' = Single(symbol, None)
                    /\ UNCHANGED us_quote_cache

\* lines 120-127
us_uncached(symbols) == SelectSeq(symbols, LAMBDA s : ~_get_cached_us_quote(s))

\* USStockService.get_multiple_us_stock_quotes (lines 112-154)
get_multiple_us_stock_quotes(symbols, o) ==
    /\ focus = "us"
    /\ req' = [op |-> "get_multiple_us_stock_quotes", syms |-> symbols]
    /\ UNCHANGED notQuoteVars
    /\ UNCHANGED <<focus, now, eod_cache, eod_failed, quote_cache, vn_db>>
    /\ LET uncached == us_uncached(symbols)
           cachedPart == [s \in Symbols |->
                            IF s \in Range(symbols) /\ _get_cached_us_quote(s)
                            THEN Data(us_quote_cache[s].fetched, us_quote_cache[s].shape)
                            ELSE Absent]
       IN IF uncached = <<>>
          THEN /\ ret' = cachedPart
               /\ calls' = <<>>
               /\ UNCHANGED <<latest_cache, us_quote_cache>>
          ELSE LET batch == batch_results(uncached, o) IN
               /\ calls' = batch_calls(uncached)
               /\ latest_cache' = batch_written(uncached, o)
               /\ ret' = [s \in Symbols |->
                            IF batch[s].kind = "data" THEN Data(batch[s].fetched, "us_batch")
                            ELSE IF batch[s].kind = "None" THEN None
                            ELSE cachedPart[s]]
               /\ us_quote_cache' = [s \in Symbols |->
                            IF batch[s].kind = "data"
                            THEN Entry(now, batch[s].fetched, "us_batch")
                            ELSE us_quote_cache[s]]

----------------------------------------------------------------------------
(* vnstock_helper.get_price_board under retry_on_error(max_retries=3) *)

max_retries == 3

\* What the price board does for one request:
\*   raises  attempts that raise before one returns (max_retries: all raise,
\*           the wrapper returns None)
\*   kind    of the attempt that returns: "rows" (a frame with one row per
\*           symbol of items), "empty" (None or an empty frame, also
\*           ImportError), "malformed" (rows of items, then a row on which
\*           float() raises in the caller)
\* price_board answers with rows of the symbols it was asked for.
BoardOutcomes ==
    [raises : 0..max_retries, kind : {"rows", "malformed"}, items : SUBSET Symbols]
    \cup [raises : 0..max_retries, kind : {"empty"}, items : {{}}]

BoardCall(syms) == [provider |-> "price_board", syms |-> syms]

\* lines 96-118 of vnstock_helper: one provider call per attempt, the next
\* attempt only after the previous one raised
board_calls(syms, o) ==
    [i \in 1..(IF o.raises < max_retries THEN o.raises + 1 ELSE max_retries)
        |-> BoardCall(syms)]

\* the frame get_price_board hands back: the symbols of its rows, {} for None
board_rows(syms, o) ==
    IF o.raises < max_retries /\ o.kind \in {"rows", "malformed"}
    THEN o.items \cap Range(syms) ELSE {}

----------------------------------------------------------------------------
(* stock_service *)

_cache_ttl == 300

\* timedelta(days=1), line 166
ONE_DAY == 86400

\* _get_cached_quote(symbol) is not None (lines 16-22)
_get_cached_quote(symbol) ==
    /\ quote_cache[symbol].present
    /\ now - quote_cache[symbol].mtime < _cache_ttl

\* lines 166-171: a VNStock row for the symbol no older than one day
db_recent(symbol) ==
    /\ vn_db[symbol].present
    /\ vn_db[symbol].mtime >= now - ONE_DAY

\* get_latest_stock_price(session, symbol, is_vn_stock=True), lines 148-243;
\* commit: whether session.commit() of line 224 succeeds
get_latest_stock_price(symbol, o, commit) ==
    /\ focus = "vn"
    /\ req' = [op |-> "get_latest_stock_price", syms |-> <<symbol>>]
    /\ UNCHANGED notQuoteVars
    /\ UNCHANGED <<focus, now, eod_cache, eod_failed, latest_cache,
                   us_quote_cache>>
    /\ IF _get_cached_quote(symbol)
       THEN /\ ret' = Single(symbol, Data(quote_cache[symbol].fetched,
                                          quote_cache[symbol].shape))
            /\ calls' = <<>>
            /\ UNCHANGED <<quote_cache, vn_db>>
       ELSE IF db_recent(symbol)
       THEN /\ ret' = Single(symbol, Data(vn_db[symbol].fetched, "vn_single"))
            /\ quote_cache' = [quote_cache EXCEPT ![symbol] =
                                 Entry(now, vn_db[symbol].fetched, "vn_single")]
            /\ calls' = <<>>
            /\ UNCHANGED vn_db
       ELSE /\ calls' = board_calls(<<symbol>>, o)
            /\ IF board_rows(<<symbol>>, o) # {} /\ o.kind = "rows"
               THEN /\ ret' = Single(symbol, Data(now, "vn_single"))
                    /\ quote_cache' = [quote_cache EXCEPT ![symbol] =
                                         Entry(now, now, "vn_single")]
                    /\ vn_db' = IF commit
                                THEN [vn_db EXCEPT ![symbol] = Entry(now, now, "row")]
                                ELSE vn_db
               ELSE \* no frame, or float() raised at 202-206: None
                    /\ ret' = Single(symbol, None)
                    /\ UNCHANGED <<quote_cache, vn_db>>

\* lines 292-298
vn_uncached(symbols) == SelectSeq(symbols, LAMBDA s : ~_get_cached_quote(s))

\* the dict get_multiple_vn_stock_quotes returns (lines 284-333): the cache
\* hits and the rows of the frame; nothing is stored for the other symbols
vn_results(symbols, o) ==
    [s \in Symbols |->
        IF s \notin Range(symbols) THEN Absent
        ELSE IF _get_cached_quote(s)
        THEN Data(quote_cache[s].fetched, quote_cache[s].shape)
        ELSE IF s \in board_rows(vn_uncached(symbols), o)
        THEN Data(now, "vn_batch")
        ELSE Absent]

\* get_multiple_vn_stock_quotes(symbols), lines 279-333
get_multiple_vn_stock_quotes(symbols, o) ==
    /\ focus = "vn"
    /\ req' = [op |-> "get_multiple_vn_stock_quotes", syms |-> symbols]
    /\ ret' = vn_results(symbols, o)
    /\ UNCHANGED notQuoteVars
    /\ UNCHANGED <<focus, now, eod_cache, eod_failed, latest_cache,
                   us_quote_cache, vn_db>>
    /\ IF vn_uncached(symbols) = <<>>
       THEN /\ calls' = <<>>
            /\ UNCHANGED quote_cache
       ELSE /\ calls' = board_calls(vn_uncached(symbols), o)
            /\ quote_cache' = [s \in Symbols |->
                                 IF s \in board_rows(vn_uncached(symbols), o)
                                 THEN Entry(now, now, "vn_batch")
                                 ELSE quote_cache[s]]

----------------------------------------------------------------------------
\* main.startup_event, lines 126-137: unlink failed files older than 1800 s
\* mutant of startup_stale: every failed file is taken for an old one
startup_stale_any(entry, n) == entry.present

\* line 134: now - f.stat().st_mtime > 1800, for a file the glob found
startup_stale(entry, n) == entry.present /\ n - entry.mtime > 1800

\* a file counted in cleared (line 136)
Unlinked == [kind |-> "unlinked", fetched |-> 0, shape |-> "-"]

startup_event ==
    /\ focus = "eod"
    /\ eod_failed' = [k \in Symbols |->
                        IF startup_stale(eod_failed[k], now)
                        THEN NoFile ELSE eod_failed[k]]
    /\ req' = [op |-> "startup_event", syms |-> <<>>]
    /\ calls' = <<>>
    /\ ret' = [k \in Symbols |->
                 IF startup_stale(eod_failed[k], now) THEN Unlinked ELSE Absent]
    /\ UNCHANGED notQuoteVars
    /\ UNCHANGED <<focus, now, eod_cache, latest_cache,
                   us_quote_cache, quote_cache, vn_db>>

----------------------------------------------------------------------------
(* The clock *)

Advance(t) ==
    /\ t > now
    /\ now' = t
    /\ req' = NoReq
    /\ calls' = <<>>
    /\ ret' = NoRet
    /\ UNCHANGED notQuoteVars
    /\ UNCHANGED <<focus, eod_cache, eod_failed, latest_cache, us_quote_cache,
                   quote_cache, vn_db>>

----------------------------------------------------------------------------
(* vnstock_helper.VNStockRateLimiter                                       *)
(*                                                                          *)
(* One limiter instance VNStockRateLimiter(max_requests, time_window) and   *)
(* NumThreads executor threads calling wait_if_needed.  The clock counts    *)
(* ticks of 1 / (2 * max_requests) second, so that time_window,             *)
(* min_interval = time_window / max_requests and the 0.5 s buffer are whole *)
(* numbers of ticks whatever the two parameters are.  time.time() is taken  *)
(* to be non-decreasing and time.sleep(x) to return no earlier than x.      *)

max_requests == 2

time_window == 1

NumThreads == 2

MaxCalls == 4

MaxTime == 6

Threads == 1..NumThreads

TicksPerSecond == 2 * max_requests

\* self.time_window, in ticks
window == time_window * TicksPerSecond

\* self.min_interval = time_window / max_requests (line 25), in ticks
min_interval == 2 * time_window

\* the extra 0.5 s of line 42, in ticks
buffer == max_requests

SeqMin(q) == CHOOSE x \in Range(q) : \A y \in Range(q) : x <= y

SeqMax(q) == CHOOSE x \in Range(q) : \A y \in Range(q) : x >= y

\* lines 36, 49, 70: [t for t in self.requests if now - t < self.time_window]
prune(reqs, n) == SelectSeq(reqs, LAMBDA t : n - t < window)

\* mutant of wake_time: the sleep returns at once
wake_time_nosleep(n, secs) == n

\* time.sleep(secs) started at n returns no earlier than n + secs
wake_time(n, secs) == n + secs

\* line 39
at_capacity(reqs) == Len(reqs) >= max_requests

\* mutant of too_soon: the spacing check is off by the whole interval
too_soon_never(reqs, n) == FALSE

\* lines 52-56: the last request is less than min_interval ago
too_soon(reqs, n) == reqs # <<>> /\ n - SeqMax(reqs) < min_interval

\* mutant of lock_after_return: the lock is left held
lock_after_return_held(t) == t

\* leaving the with block (line 64) releases the lock
lock_after_return(t) == 0

\* line 62: self.requests.append(now)
recorded(reqs, n) == Append(reqs, n)

\* lines 61-64: record the request, leave the with block, return
Record(t, n, reqs) ==
    /\ requests' = recorded(reqs, n)
    /\ stamps' = stamps \o SubSeq(recorded(reqs, n), Len(reqs) + 1, Len(recorded(reqs, n)))
    /\ lock' = lock_after_return(t)
    /\ pc' = [pc EXCEPT ![t] = "idle"]
    /\ wake' = [wake EXCEPT ![t] = 0]

\* lines 51-64 with now = n and self.requests = reqs
Spacing(t, n, reqs) ==
    IF too_soon(reqs, n)
    THEN /\ requests' = reqs
         /\ pc' = [pc EXCEPT ![t] = "sleep2"]
         /\ wake' = [wake EXCEPT ![t] =
                       wake_time(n, min_interval - (n - SeqMax(reqs)))]
         /\ lock' = t
         /\ UNCHANGED stamps
    ELSE Record(t, n, reqs)

\* a thread calls wait_if_needed and blocks on `with self.lock`
Call(t) ==
    /\ focus = "limiter"
    /\ pc[t] = "idle"
    /\ started < MaxCalls
    /\ started' = started + 1
    /\ pc' = [pc EXCEPT ![t] = "lock"]
    /\ UNCHANGED <<focus, clock, requests, lock, wake, stamps>>
    /\ UNCHANGED notLimiterVars

\* lines 32-46: the lock is taken, the list pruned and the count checked
Enter(t) ==
    /\ focus = "limiter"
    /\ pc[t] = "lock"
    /\ lock = 0
    /\ LET pruned == prune(requests, clock)
           wait_time == window - (clock - SeqMin(pruned)) + buffer
       IN IF at_capacity(pruned) /\ wait_time > 0
          THEN /\ requests' = pruned
               /\ pc' = [pc EXCEPT ![t] = "sleep1"]
               /\ wake' = [wake EXCEPT ![t] = wake_time(clock, wait_time)]
               /\ lock' = t
               /\ UNCHANGED stamps
          ELSE Spacing(t, clock, pruned)
    /\ UNCHANGED <<focus, clock, started>>
    /\ UNCHANGED notLimiterVars

\* lines 46-49: the sleep of the count limit ends, the list is pruned again
Wake1(t) ==
    /\ focus = "limiter"
    /\ pc[t] = "sleep1"
    /\ clock >= wake[t]
    /\ Spacing(t, clock, prune(requests, clock))
    /\ UNCHANGED <<focus, clock, started>>
    /\ UNCHANGED notLimiterVars

\* lines 58-64: the sleep of the minimum interval ends
Wake2(t) ==
    /\ focus = "limiter"
    /\ pc[t] = "sleep2"
    /\ clock >= wake[t]
    /\ Record(t, clock, requests)
    /\ UNCHANGED <<focus, clock, started>>
    /\ UNCHANGED notLimiterVars

\* get_status (lines 66-76): takes the lock and prunes the list
get_status ==
    /\ focus = "limiter"
    /\ lock = 0
    /\ requests' = prune(requests, clock)
    /\ UNCHANGED <<focus, clock, lock, pc, wake, started, stamps>>
    /\ UNCHANGED notLimiterVars

\* time passes; past MaxTime only while a sleeper still waits for its instant
Tick ==
    /\ focus = "limiter"
    /\ \/ clock < MaxTime
       \/ \E t \in Threads : pc[t] \in {"sleep1", "sleep2"} /\ clock < wake[t]
    /\ clock' = clock + 1
    /\ UNCHANGED <<focus, requests, lock, pc, wake, started, stamps>>
    /\ UNCHANGED notLimiterVars

----------------------------------------------------------------------------
(* news_search_service.NewsSearchService.search_news                        *)
(*                                                                          *)
(* search_news has no suspension point: Client.search is a blocking call    *)
(* and the two awaited coroutines (NewsDataService.search_news and          *)
(* NewsAPIService.search_news) block in requests.get and never yield, so    *)
(* the event loop runs one search_news at a time from start to return.      *)
(* Each provider call is two steps, the call and its completion.            *)

\* bound on max_results and on the records one provider call delivers
MaxResults == 2

Keys == {"TAVILY_API_KEY", "NEWSDATA_API_KEY", "NEWSAPI_KEY"}

\* "q_vi" stands for a query holding a character of vietnamese_chars (line 22)
Queries == {"q_en", "q_vi"}

is_vietnamese(query) == query = "q_vi"

\* the urls of the records the providers deliver
Urls == {"u1", "u2"}

SeqsUpTo(S, n) == UNION {[1..k -> S] : k \in 0..n}

\* the records of one provider, as appended to results
Tag(src, urls) ==
    [i \in 1..Len(urls) |->
        [src |-> src, url |-> urls[i], title |-> <<urls[i]>>,
         content |-> "long", date |-> [day |-> 1, aware |-> TRUE]]]

CallEvent(p) == [p |-> p, ev |-> "call", n |-> 0]

\* ev is "ok" or "raise"; n: the records appended to results by the call
DoneEvent(p, ev, n) == [p |-> p, ev |-> ev, n |-> n]

\* A title is a sequence of characters: letters in either case, the blank
\* and a punctuation mark.
lower(c) == IF c = "A" THEN "a" ELSE c

\* title.lower()
title_lower(title) == [i \in 1..Len(title) |-> lower(title[i])]

\* str.strip() and str.rstrip('/'): the characters of set cs taken off the ends
RECURSIVE rstrip(_, _)
rstrip(str, cs) ==
    IF str # <<>> /\ str[Len(str)] \in cs
    THEN rstrip(SubSeq(str, 1, Len(str) - 1), cs) ELSE str

RECURSIVE lstrip(_, _)
lstrip(str, cs) ==
    IF str # <<>> /\ Head(str) \in cs THEN lstrip(Tail(str), cs) ELSE str

\* re.sub(r'\s+', ' ', str)
RECURSIVE collapse(_)
collapse(str) ==
    IF Len(str) < 2 THEN str
    ELSE IF str[1] = " " /\ str[2] = " " THEN collapse(Tail(str))
    ELSE <<str[1]>> \o collapse(Tail(str))

\* news_filter.hash_title, lines 50-58: lower and strip, then drop what is
\* neither \w nor \s, then squeeze runs of blanks; md5 is taken as injective,
\* so the hash is the normalized title
hash_title(title) ==
    collapse(SelectSeq(lstrip(rstrip(title_lower(title), {" "}), {" "}),
                       LAMBDA c : c # "!"))

\* A url is scheme://[prefix.]*host[/path][/...][?query]: prefixes are the
\* leading www./m./mobile. labels of the host, upper whether the host is in
\* capitals, slashes the number of trailing slashes.
Url(scheme, prefixes, upper, path, slashes, query) ==
    [scheme |-> scheme, prefixes |-> prefixes, upper |-> upper,
     path |-> path, slashes |-> slashes, query |-> query]

\* re.sub(r'^(m\.|mobile\.|www\.)', '', netloc), line 37: one leading label
strip_prefix(prefixes) == IF prefixes = <<>> THEN <<>> ELSE Tail(prefixes)

\* news_filter.canonical_url, lines 25-48
canonical_url(url) ==
    Url("https", strip_prefix(url.prefixes), FALSE, url.path, 0, "")

\* news_filter.is_homepage_link and is_valid_article_url (lines 60-127) on a
\* canonical url: an empty path is a homepage, the other paths of the model
\* are article paths (a /news/ segment, more than ten characters)
is_valid_article_url(url) == url.path # ""

\* the dates of the records: sorted(...) of line 210 raises TypeError when
\* offset-aware and offset-naive datetimes meet (a trailing Z or an offset
\* makes fromisoformat aware), and the records then keep their order
sort_ok(results) ==
    \A i, j \in 1..Len(results) : results[i].date.aware = results[j].date.aware

RECURSIVE newest_first(_, _)
newest_first(results, days) ==
    IF days = {} THEN <<>>
    ELSE LET d == CHOOSE x \in days : \A y \in days : y <= x
         IN  SelectSeq(results, LAMBDA r : r.date.day = d)
             \o newest_first(results, days \ {d})

\* mutant of results_sorted: the records stay as gathered
results_as_gathered(results) == results

\* lines 208-218: stable sort, newest first
results_sorted(results) ==
    IF sort_ok(results)
    THEN newest_first(results, {results[i].date.day : i \in 1..Len(results)})
    ELSE results

\* line 226: seen_urls.add(url), before the content filter of line 232
format_seen(item, seen_urls) == seen_urls \cup {item.url}

\* _format_results, the loop of lines 220-257: seen_titles holds
\* md5(title.lower()); content is "short" below 100 characters
RECURSIVE format_loop(_, _, _, _, _)
format_loop(rest, seen_urls, seen_titles, unique_results, max_results) ==
    IF rest = <<>> \/ Len(unique_results) >= max_results
    THEN unique_results
    ELSE LET item == Head(rest) IN
         IF item.url \in seen_urls
         THEN format_loop(Tail(rest), seen_urls, seen_titles,
                          unique_results, max_results)
         ELSE IF item.content = "short" \/ title_lower(item.title) \in seen_titles
         THEN format_loop(Tail(rest), format_seen(item, seen_urls), seen_titles,
                          unique_results, max_results)
         ELSE format_loop(Tail(rest), format_seen(item, seen_urls),
                          seen_titles \cup {title_lower(item.title)},
                          Append(unique_results, item), max_results)

\* NewsSearchService._format_results, lines 199-260
_format_results(results, max_results) ==
    format_loop(results_sorted(results), {}, {}, <<>>, max_results)

\* the record the router answers for a record it keeps: line 154
answered(a) == [a EXCEPT !.url = canonical_url(a.url)]

\* mutant of filter_key: the router compares the urls as they came
filter_key_raw(article) == article.url

\* routers/news.py line 120
filter_key(article) == canonical_url(article.url)

\* routers/news.search_news_on_demand, the loop of lines 116-161: a record
\* that passes has its url replaced by the canonical one (line 154)
RECURSIVE filter_loop(_, _, _, _)
filter_loop(rest, seen_urls, seen_titles, filtered_results) ==
    IF rest = <<>> THEN filtered_results
    ELSE LET article == Head(rest)
             canonical == filter_key(article)
             title_hash == hash_title(article.title)
         IN  IF \/ canonical \in seen_urls
                \/ title_hash \in seen_titles
                \/ ~is_valid_article_url(canonical_url(article.url))
                \/ article.content = "short"
             THEN filter_loop(Tail(rest), seen_urls, seen_titles, filtered_results)
             ELSE filter_loop(Tail(rest), seen_urls \cup {canonical},
                              seen_titles \cup {title_hash},
                              Append(filtered_results, answered(article)))

\* lines 94-107 and 111-161: the "results" of the /news/search answer
search_filter(results) == filter_loop(results, {}, {}, <<>>)


\* lines 167-183: strategy 3, or the final return
strategy3(results, query, max_results) ==
    IF /\ Len(results) < max_results
       /\ ~is_vietnamese(query)
       /\ "NEWSAPI_KEY" \in news_cfg
    THEN "NewsAPI.org" ELSE "return"

\* mutant of strategy2: NewsData.io is left out of the cascade
strategy2_skipped(results, query, max_results) ==
    strategy3(results, query, max_results)

\* lines 143-165: strategy 2
strategy2(results, query, max_results) ==
    IF Len(results) < max_results
    THEN "NewsData.io" ELSE strategy3(results, query, max_results)

\* mutant of next_provider: NewsAPI.org is tried before NewsData.io
next_provider_newsapi_first(stage, raised, results, query, max_results) ==
    CASE stage = "start" ->
            IF "TAVILY_API_KEY" \in news_cfg THEN "Tavily" ELSE "NewsAPI.org"
      [] stage = "Tavily" ->
            IF ~raised /\ Len(results) >= max_results THEN "return"
            ELSE "NewsAPI.org"
      [] stage = "NewsAPI.org" -> strategy2(results, query, max_results)
      [] OTHER -> "return"

\* what search_news does next, having completed stage with results in hand:
\* the provider it calls, or "return" (lines 26, 136-138, 144, 168)
next_provider(stage, raised, results, query, max_results) ==
    CASE stage = "start" ->
            IF "TAVILY_API_KEY" \in news_cfg THEN "Tavily"
            ELSE strategy2(results, query, max_results)
      [] stage = "Tavily" ->
            IF ~raised /\ Len(results) >= max_results THEN "return"
            ELSE strategy2(results, query, max_results)
      [] stage = "NewsData.io" -> strategy3(results, query, max_results)
      [] OTHER -> "return"

\* whether a completed log shows Tavily failing and a later provider
\* delivering records
failover(log) ==
    \E i, j \in 1..Len(log) :
        /\ i < j
        /\ log[i].p = "Tavily" /\ log[i].ev = "raise"
        /\ log[j].ev = "ok" /\ log[j].n > 0

\* the rest of search_news after stage completed with event done and results:
\* call the next provider, or return _format_results(results, max_results);
\* format_raises: a record's title is null, title.lower() raises at line 236
\* and the outer handler (lines 193-197) returns []
Proceed(stage, done, results, format_raises) ==
    LET nx  == next_provider(stage, done.ev = "raise", results,
                             news_query, news_max)
        log == Append(news_log, done)
    IN  /\ news_results' = results
        /\ IF nx = "return"
           THEN /\ news_pc' = "idle"
                /\ news_log' = log
                /\ news_ret' = IF format_raises /\ results # <<>> THEN <<>>
                               ELSE _format_results(results, news_max)
                /\ news_prior' = [news_prior EXCEPT ![news_query] =
                                    @ \/ failover(log)]
           ELSE /\ news_pc' = nx
                /\ news_log' = Append(log, CallEvent(nx))
                /\ UNCHANGED <<news_ret, news_prior>>
        /\ UNCHANGED <<focus, news_cfg, news_query, news_max>>
        /\ UNCHANGED notNewsVars

\* search_news(query, max_results), lines 15-26 and 143-151: up to the first
\* provider call (max_results >= 1, so strategy 2 runs when Tavily has no key)
search_news(query, max_results) ==
    /\ focus = "news"
    /\ news_pc = "idle"
    /\ news_query' = query
    /\ news_max' = max_results
    /\ news_results' = <<>>
    /\ news_pc' = next_provider("start", FALSE, <<>>, query, max_results)
    /\ news_log' = <<CallEvent(news_pc')>>
    /\ UNCHANGED <<focus, news_cfg, news_ret, news_prior>>
    /\ UNCHANGED notNewsVars

\* what client.search and the loop of lines 83-131 can do: urls are the
\* records appended to results before the block ended or raised
TavilyOutcomes == [raises : BOOLEAN, urls : SeqsUpTo(Urls, MaxResults)]

\* lines 66-141: Tavily has answered
tavily_done(o, format_raises) ==
    /\ focus = "news"
    /\ news_pc = "Tavily"
    /\ Proceed("Tavily",
               DoneEvent("Tavily", IF o.raises THEN "raise" ELSE "ok", Len(o.urls)),
               news_results \o Tag("Tavily", o.urls), format_raises)

\* what a secondary provider returns: at most shortage records, and none
\* without its API key or on any error (its own handler returns [])
SecondaryOutcomes(key) ==
    IF key \in news_cfg
    THEN SeqsUpTo(Urls, news_max - Len(news_results))
    ELSE {<<>>}

\* lines 152-163: NewsDataService.search_news has returned
newsdata_done(urls, format_raises) ==
    /\ focus = "news"
    /\ news_pc = "NewsData.io"
    /\ Proceed("NewsData.io", DoneEvent("NewsData.io", "ok", Len(urls)),
               news_results \o Tag("NewsData.io", urls), format_raises)

\* lines 173-181: NewsAPIService.search_news has returned
newsapi_done(urls, format_raises) ==
    /\ focus = "news"
    /\ news_pc = "NewsAPI.org"
    /\ Proceed("NewsAPI.org", DoneEvent("NewsAPI.org", "ok", Len(urls)),
               news_results \o Tag("NewsAPI.org", urls), format_raises)

----------------------------------------------------------------------------
(* gold_service.GoldPriceService                                            *)
(*                                                                          *)
(* Prices are whole VND per gram, products rounded down.  Neither provider  *)
(* coroutine has a suspension point, so asyncio.gather runs them one after  *)
(* the other and get_all_gold_prices is one step.                           *)

\* bound on the prices the providers quote
MaxPrice == 2

Prices == 0..MaxPrice

fallback_24k == 87500000

\* x * 0.99 and x * 1.01 (lines 82-83, 154-155)
Pct(x, p) == (x * p) \div 100

GoldRecord(source, type, per_gram) ==
    [source |-> source, type |-> type,
     buy_price |-> Pct(per_gram, 99), sell_price |-> Pct(per_gram, 101)]

\* mutant of _get_fallback_vn_gold: the failure answer is None again
_get_fallback_vn_gold_none == <<>>

\* _get_fallback_vn_gold(), lines 138-163
_get_fallback_vn_gold ==
    <<GoldRecord("Fallback (Estimated)", "24K", (fallback_24k * 10) \div 375)>>

\* what the Apised call and the parsing of its payload can do (lines 41-79):
\* bad_number is a price field float() rejects; bad_payload is a payload
\* whose "data" or "metal_prices" is not a dict
VnGoldFailures == {"401", "429", "http_error", "timeout", "exception",
                   "not_success", "no_metal_prices", "bad_number",
                   "bad_payload"}

VnGoldOutcomes ==
    [kind : VnGoldFailures, p24 : {0}, p22 : {0}, p18 : {0}]
    \cup [kind : {"ok"}, p24 : Prices, p22 : Prices, p18 : Prices]

\* get_vn_gold_prices(), lines 20-136
get_vn_gold_prices(o) ==
    IF o.kind = "ok"
    THEN <<GoldRecord("Apised Gold API", "24K", o.p24),
           GoldRecord("Apised Gold API", "22K", o.p22),
           GoldRecord("Apised Gold API", "18K", o.p18)>>
    ELSE _get_fallback_vn_gold

IntlGoldOutcomes ==
    [kind : {"http_error", "exception", "bad_number"}, price : {0}]
    \cup [kind : {"ok"}, price : Prices]

\* get_international_gold_prices(), lines 165-197
get_international_gold_prices(o) ==
    IF o.kind = "ok"
    THEN <<[source |-> "GoldAPI.io", type |-> "Gold Spot Price",
            price_usd |-> o.price]>>
    ELSE <<>>

NoGold == [vn |-> <<>>, international |-> <<>>, error |-> FALSE]

\* get_all_gold_prices(), lines 199-225; error: whether the dict has an
\* "error" key.  Both coroutines catch every Exception themselves, so gather
\* hands back two lists and the handler of lines 226-233 is not entered.
get_all_gold_prices(vo, io) ==
    /\ focus = "gold"
    /\ gold_in' = [vn |-> vo, international |-> io]
    /\ gold_ret' = [vn |-> get_vn_gold_prices(vo),
                    international |-> get_international_gold_prices(io),
                    error |-> FALSE]
    /\ UNCHANGED focus
    /\ UNCHANGED notGoldVars

----------------------------------------------------------------------------
\* the provider outcomes worth telling apart for a call with symbol list u:
\* when no call is made the outcome is never looked at
BatchOutcomesFor(u) ==
    IF u = <<>> THEN {[kind |-> "ok", items |-> {}]} ELSE BatchOutcomes

BoardOutcomesFor(u) ==
    IF u = <<>> THEN {[raises |-> 0, kind |-> "empty", items |-> {}]}
    ELSE {o \in BoardOutcomes : o.items \subseteq Range(u)}

InitState ==
    /\ now = 0
    /\ eod_cache = [k \in Symbols |-> NoFile]
    /\ eod_failed = [k \in Symbols |-> NoFile]
    /\ latest_cache = [k \in Symbols |-> NoFile]
    /\ us_quote_cache = [k \in Symbols |-> NoFile]
    /\ quote_cache = [k \in Symbols |-> NoFile]
    /\ vn_db = [k \in Symbols |-> NoFile]
    /\ req = NoReq
    /\ calls = <<>>
    /\ ret = NoRet
    /\ clock = 0
    /\ requests = <<>>
    /\ lock = 0
    /\ pc = [t \in Threads |-> "idle"]
    /\ wake = [t \in Threads |-> 0]
    /\ started = 0
    /\ stamps = <<>>

InitNews(cfg) ==
    /\ news_cfg = cfg
    /\ news_pc = "idle"
    /\ news_query = "q_en"
    /\ news_max = 1
    /\ news_results = <<>>
    /\ news_log = <<>>
    /\ news_ret = <<>>
    /\ news_prior = [q \in Queries |-> FALSE]

\* The gathered records of the dedupe model: the www. and m. addresses of one
\* story, another story and a front page; titles equal up to case and
\* punctuation; dates on two days, offset-aware or naive.
ArticleUrls ==
    {Url("https", <<"www">>, FALSE, "/a/story", 0, "utm=1"),
     Url("https", <<"m">>, FALSE, "/a/story", 0, ""),
     Url("https", <<>>, FALSE, "/b/story", 0, ""),
     Url("https", <<>>, FALSE, "", 0, "")}

ArticleTitles == {<<"A">>, <<"a", "!">>, <<"b">>}

ArticleDates ==
    {[day |-> 1, aware |-> TRUE], [day |-> 2, aware |-> TRUE],
     [day |-> 1, aware |-> FALSE]}

Articles ==
    [url : ArticleUrls, title : ArticleTitles, content : {"short", "long"},
     date : ArticleDates, score : {1, 2}]

\* the lists of gathered records: none, one or two
Gathered ==
    {<<>>} \cup {<<a>> : a \in Articles}
           \cup {<<a, b>> : a \in Articles, b \in Articles}

MaxResultsArgs == {1, 2}

\* the providers of search_news keep no record of fewer than 100 characters
\* (news_search_service.py line 109, newsdata_service.py lines 64, 109, 234)
provider_filtered(results) ==
    \A i \in 1..Len(results) : results[i].content = "long"

\* a call of NewsSearchService._format_results on its own
format_results_call(results, max_results) ==
    /\ focus = "dedupe"
    /\ dd_pc = "idle"
    /\ dd_in' = results
    /\ dd_max' = max_results
    /\ dd_fmt' = _format_results(results, max_results)
    /\ dd_pc' = "formatted"
    /\ UNCHANGED <<focus, dd_out>>
    /\ UNCHANGED notDedupeVars

\* routers/news.search_news_on_demand, lines 78-181: search_news gathers
\* results and formats them, the router filters what comes back
search_news_on_demand(results, max_results) ==
    /\ focus = "dedupe"
    /\ dd_pc = "idle"
    /\ provider_filtered(results)
    /\ dd_in' = results
    /\ dd_max' = max_results
    /\ dd_fmt' = _format_results(results, max_results)
    /\ dd_out' = search_filter(_format_results(results, max_results))
    /\ dd_pc' = "answered"
    /\ UNCHANGED focus
    /\ UNCHANGED notDedupeVars

InitDedupe ==
    /\ dd_in = <<>>
    /\ dd_max = 1
    /\ dd_fmt = <<>>
    /\ dd_out = <<>>
    /\ dd_pc = "idle"

\* The urls given to canonical_url: either scheme, up to two of the leading
\* host labels, the host in either case, with or without a trailing slash
\* and a query string.
HostPrefixes == {<<>>, <<"www">>, <<"m">>, <<"mobile">>, <<"www", "m">>}

GivenUrls ==
    {Url(sc, pre, up, "/a/story", sl, q) :
        sc \in {"http", "https"}, pre \in HostPrefixes, up \in BOOLEAN,
        sl \in {0, 1}, q \in {"", "utm=1"}}

TitleChars == {"a", "A", " ", "!"}

\* the titles given to hash_title: up to three characters
GivenTitles == UNION {[1..n -> TitleChars] : n \in 0..3}

\* canonical_url applied to two urls
canonical_url_pair(u, v) ==
    /\ focus = "normalize"
    /\ nz_kind = "none"
    /\ nz_kind' = "url"
    /\ nz_in' = <<u, v>>
    /\ nz_out' = <<canonical_url(u), canonical_url(v)>>
    /\ UNCHANGED focus
    /\ UNCHANGED notNormVars

\* embed_article_endpoint, line 228, hands canonical_url(request.url) to
\* process_and_embed_article, which applies canonical_url to it, line 287
embed_canonical(u) ==
    /\ focus = "normalize"
    /\ nz_kind = "none"
    /\ nz_kind' = "embed"
    /\ nz_in' = <<u>>
    /\ nz_out' = <<canonical_url(u), canonical_url(canonical_url(u))>>
    /\ UNCHANGED focus
    /\ UNCHANGED notNormVars

\* hash_title applied to two titles
hash_title_pair(t, u) ==
    /\ focus = "normalize"
    /\ nz_kind = "none"
    /\ nz_kind' = "title"
    /\ nz_in' = <<t, u>>
    /\ nz_out' = <<hash_title(t), hash_title(u)>>
    /\ UNCHANGED focus
    /\ UNCHANGED notNormVars

InitNorm ==
    /\ nz_kind = "none"
    /\ nz_in = <<>>
    /\ nz_out = <<>>

\* the decorations of vnstock_helper: fetch_stock_data and get_price_board
\* (3, 5.0), list_all_symbols (2, 3.0)
RetryConfigs ==
    {[max_retries |-> 3, delay |-> 5], [max_retries |-> 2, delay |-> 3]}

\* str(e).lower() of the exception func raised, by what it contains
ErrorMessages == {"rate", "limit", "429", "too many", "timeout", "connection"}

\* what func returns when it does not raise: a frame, or None (no data, a
\* missing column, vnstock not installed)
ReturnValues == {"frame", "None"}

\* line 106
is_rate_limit(error_msg) == error_msg \in {"rate", "limit", "429", "too many"}

\* mutant of sleep_time: the two classes of failure exchanged
sleep_time_exchanged(delay, attempt, error_msg) ==
    IF is_rate_limit(error_msg) THEN delay ELSE delay * (2 ^ attempt)

\* lines 106-113: the argument of time.sleep after attempt number attempt
sleep_time(delay, attempt, error_msg) ==
    IF is_rate_limit(error_msg) THEN delay * (2 ^ attempt) ELSE delay

\* mutant of attempts: one attempt more than max_retries
attempts_one_more(cfg) == cfg.max_retries + 1

\* line 98: range(max_retries)
attempts(cfg) == cfg.max_retries

Returned(value) == [kind |-> "return", value |-> value]

Raised(error_msg) == [kind |-> "raise", value |-> error_msg]

\* the decorated function is called: wrapper, lines 96-98
retry_wrapper_call(cfg) ==
    /\ focus = "retry"
    /\ rt_pc = "idle"
    /\ rt_cfg' = cfg
    /\ rt_pc' = IF attempts(cfg) > 0 THEN "loop" ELSE "done"
    /\ rt_ret' = IF attempts(cfg) > 0 THEN rt_ret ELSE "None"
    /\ UNCHANGED <<focus, rt_log, rt_sleeps>>
    /\ UNCHANGED notRetryVars

\* one turn of the loop in which func returns: line 100
retry_attempt_returns(value) ==
    /\ focus = "retry"
    /\ rt_pc = "loop"
    /\ rt_log' = Append(rt_log, Returned(value))
    /\ rt_ret' = value
    /\ rt_pc' = "done"
    /\ UNCHANGED <<focus, rt_cfg, rt_sleeps>>
    /\ UNCHANGED notRetryVars

\* one turn of the loop in which func raises: lines 101-113, then the next
\* turn or, after the last one, lines 115-117
retry_attempt_raises(error_msg) ==
    /\ focus = "retry"
    /\ rt_pc = "loop"
    /\ rt_log' = Append(rt_log, Raised(error_msg))
    /\ rt_sleeps' = Append(rt_sleeps,
                           sleep_time(rt_cfg.delay, Len(rt_log), error_msg))
    /\ IF Len(rt_log) + 1 < attempts(rt_cfg)
       THEN rt_pc' = "loop" /\ UNCHANGED rt_ret
       ELSE rt_pc' = "done" /\ rt_ret' = "None"
    /\ UNCHANGED <<focus, rt_cfg>>
    /\ UNCHANGED notRetryVars

InitRetry ==
    /\ rt_cfg = [max_retries |-> 0, delay |-> 0]
    /\ rt_pc = "idle"
    /\ rt_log = <<>>
    /\ rt_sleeps = <<>>
    /\ rt_ret = "pending"

\* How an operation ends for its caller: Returned(value) or Raised(text).
\* The operators below follow the try statements of the operations.

\* mutant of except_Exception: the handler lets the exception through
except_Exception_absent(o, value) == o

\* try: <o> except Exception: return value
except_Exception(o, value) == IF o.kind = "raise" THEN Returned(value) ELSE o

\* what the EODHD request of get_eod_data can meet
EodFaults == {"none", "http_error", "empty_payload", "no_date_column",
              "year_lt_2000", "timeout", "request_error", "unexpected"}

\* eodhd_service.py lines 156-266: the inner try of get_eod_data with its
\* Timeout and RequestException handlers; anything else is raised on
eod_request(f) ==
    IF f = "none" THEN Returned("frame")
    ELSE IF f = "unexpected" THEN Raised("unexpected")
    ELSE Returned("None")

\* EODHDService.get_eod_data, lines 113-271 (cached: a fresh cache file or a
\* recent failure marker answers without a request)
get_eod_data_flow(cached, f) ==
    except_Exception(IF cached THEN Returned("frame") ELSE eod_request(f), "None")

\* what the bulk request of get_batch_latest_eod can meet
BatchFaults == {"none", "http_error", "timeout", "request_error",
                "malformed_item"}

\* lines 306-343: only Timeout is handled next to the request
batch_request(f) ==
    IF f = "none" THEN Returned("quotes")
    ELSE IF f \in {"http_error", "timeout"} THEN Returned("quotes_of_None")
    ELSE Raised(f)

\* EODHDService.get_batch_latest_eod, lines 278-347
get_batch_latest_eod_flow(cached, f) ==
    except_Exception(IF cached THEN Returned("quotes") ELSE batch_request(f),
                     "quotes_of_None")

\* USStockService.get_us_stock_price, lines 38-77
get_us_stock_price_flow(cached, f) ==
    except_Exception(
        IF cached THEN Returned("quote")
        ELSE LET batch == get_batch_latest_eod_flow(FALSE, f) IN
             IF batch.kind = "raise" THEN batch
             ELSE IF batch.value = "quotes" THEN Returned("quote")
             ELSE Returned("None"),
        "None")

\* USStockService.get_multiple_us_stock_quotes, lines 113-154: no try
\* statement of its own
get_multiple_us_stock_quotes_flow(cached, f) ==
    IF cached THEN Returned("quotes")
    ELSE LET batch == get_batch_latest_eod_flow(FALSE, f) IN
         IF batch.kind = "raise" THEN batch
         ELSE Returned(batch.value)

\* what get_latest_stock_price can meet for a Vietnamese symbol: the query,
\* the price board behind retry_on_error, the row and the commit
DbFaults == {"no_row", "row", "query_raises"}

BoardFaults == {"rows", "empty", "retries_exhausted", "malformed_row"}

CommitFaults == {"ok", "add_raises", "commit_raises", "rollback_raises"}

\* stock_service.py lines 190-230: the inner try, a bare except around the
\* commit only
vn_fetch(board, commit) ==
    IF board \in {"empty", "retries_exhausted"} THEN Returned("None")
    ELSE IF board = "malformed_row" THEN Raised("float")
    ELSE IF commit \in {"add_raises", "rollback_raises"} THEN Raised(commit)
    ELSE Returned("quote")

\* stock_service.get_latest_stock_price, lines 148-243
get_latest_stock_price_flow(is_vn_stock, cached, db, board, commit, f) ==
    IF ~is_vn_stock THEN get_us_stock_price_flow(cached, f)
    ELSE except_Exception(
            IF cached THEN Returned("quote")
            ELSE IF db = "query_raises" THEN Raised(db)
            ELSE IF db = "row" THEN Returned("quote")
            ELSE except_Exception(vn_fetch(board, commit), "None"),
            "None")

\* what one provider of search_news does: records, none, or an exception
ProviderFaults == {"records", "empty", "raise"}

\* one provider of search_news inside its own try (lines 40-142, 149-163,
\* 170-183): the handler logs and leaves results as they were
provider_try(o) ==
    except_Exception(IF o = "raise" THEN Raised("provider") ELSE Returned(o),
                     "empty")

\* NewsSearchService.search_news, lines 20-197; format: _format_results raises
search_news_flow(tavily, newsdata, newsapi, format) ==
    except_Exception(
        IF \E o \in {tavily, newsdata, newsapi} : provider_try(o).kind = "raise"
        THEN Raised("provider")
        ELSE IF format THEN Raised("format")
        ELSE IF \E o \in {tavily, newsdata, newsapi} :
                    provider_try(o).value = "records"
        THEN Returned("list") ELSE Returned("[]"),
        "[]")

\* routers/news.search_news_on_demand, lines 89-181; filter: the filter loop
\* raises
search_news_on_demand_flow(tavily, newsdata, newsapi, format, filter) ==
    except_Exception(
        LET results == search_news_flow(tavily, newsdata, newsapi, format) IN
        IF results.kind = "raise" THEN results
        ELSE IF results.value = "[]" THEN Returned("success_count_0")
        ELSE IF filter THEN Raised("filter")
        ELSE Returned("success_results"),
        "success_false")

\* gold_service.py lines 27-136 and 172-197: each provider function has its
\* own handlers
gold_provider_flow(kind, fallback) ==
    except_Exception(IF kind \in {"exception", "bad_number", "bad_payload"}
                     THEN Raised(kind)
                     ELSE IF kind = "ok" THEN Returned("prices")
                     ELSE Returned(fallback),
                     fallback)

\* asyncio.gather(..., return_exceptions=True), lines 203-215: an exception
\* comes back as a value and is replaced
gathered(o, fallback) == IF o.kind = "raise" THEN Returned(fallback) ELSE o

\* GoldPriceService.get_all_gold_prices, lines 202-233
get_all_gold_prices_flow(vn, international) ==
    except_Exception(
        LET vn_prices == gathered(gold_provider_flow(vn, "fallback"), "fallback")
            intl_prices == gathered(gold_provider_flow(international, "[]"), "[]")
        IN  Returned(<<vn_prices.value, intl_prices.value>>),
        "error_dict")

\* the operations and what can fail while each runs
FlowInputs ==
    [op : {"get_eod_data"}, cached : BOOLEAN, f : EodFaults]
    \cup [op : {"get_batch_latest_eod", "get_us_stock_price",
                "get_multiple_us_stock_quotes"},
          cached : BOOLEAN, f : BatchFaults]
    \cup [op : {"get_latest_stock_price"}, is_vn_stock : {TRUE},
          cached : BOOLEAN, db : DbFaults, board : BoardFaults,
          commit : CommitFaults, f : {"none"}]
    \cup [op : {"get_latest_stock_price"}, is_vn_stock : {FALSE},
          cached : BOOLEAN, db : {"no_row"}, board : {"rows"},
          commit : {"ok"}, f : BatchFaults]
    \cup [op : {"search_news"}, tavily : ProviderFaults,
          newsdata : ProviderFaults, newsapi : ProviderFaults,
          format : BOOLEAN, filter : {FALSE}]
    \cup [op : {"search_news_on_demand"}, tavily : ProviderFaults,
          newsdata : ProviderFaults, newsapi : ProviderFaults,
          format : BOOLEAN, filter : BOOLEAN]
    \cup [op : {"get_all_gold_prices"},
          vn : {o.kind : o \in VnGoldOutcomes},
          international : {o.kind : o \in IntlGoldOutcomes}]

flow(in) ==
    CASE in.op = "get_eod_data" -> get_eod_data_flow(in.cached, in.f)
      [] in.op = "get_batch_latest_eod" -> get_batch_latest_eod_flow(in.cached, in.f)
      [] in.op = "get_us_stock_price" -> get_us_stock_price_flow(in.cached, in.f)
      [] in.op = "get_multiple_us_stock_quotes" ->
            get_multiple_us_stock_quotes_flow(in.cached, in.f)
      [] in.op = "get_latest_stock_price" ->
            get_latest_stock_price_flow(in.is_vn_stock, in.cached, in.db,
                                        in.board, in.commit, in.f)
      [] in.op = "search_news" ->
            search_news_flow(in.tavily, in.newsdata, in.newsapi, in.format)
      [] in.op = "search_news_on_demand" ->
            search_news_on_demand_flow(in.tavily, in.newsdata, in.newsapi,
                                       in.format, in.filter)
      [] in.op = "get_all_gold_prices" ->
            get_all_gold_prices_flow(in.vn, in.international)

\* one of the operations is called and ends
operation_called(in) ==
    /\ focus = "flow"
    /\ fl_op = "none"
    /\ fl_op' = in.op
    /\ fl_in' = in
    /\ fl_out' = flow(in)
    /\ UNCHANGED focus
    /\ UNCHANGED notFlowVars

InitFlow ==
    /\ fl_op = "none"
    /\ fl_in = [op |-> "none"]
    /\ fl_out = Returned("None")


\* fetch_vn_stock_data_batch: the symbols of one call and the semaphore
NumSymbols == 4

max_concurrent == 2

Tasks == 1..NumSymbols

\* what run_in_executor(fetch_stock_data) hands back to fetch_single
FetchOutcomes == {"records", "no_data", "exception"}

\* the tasks whose provider fetch is running
in_flight == {i \in Tasks : fb_task[i] = "fetching"}

\* mutant of sem_free: the semaphore lets every task in
sem_free_always(value) == TRUE

\* asyncio.Semaphore.acquire does not wait while the value is positive
sem_free(value) == value > 0

\* stock_service.py lines 39-50 and 97: the call builds the semaphore and
\* gathers one fetch_single per symbol
fetch_vn_stock_data_batch ==
    /\ focus = "fetch"
    /\ fb_pc = "idle"
    /\ fb_pc' = "gathering"
    /\ fb_task' = [i \in Tasks |-> "waiting"]
    /\ fb_sem' = max_concurrent
    /\ UNCHANGED focus
    /\ UNCHANGED notFetchVars

\* fetch_single, lines 53-66: async with semaphore, then the executor call
fetch_single_start(i) ==
    /\ focus = "fetch"
    /\ fb_pc = "gathering"
    /\ fb_task[i] = "waiting"
    /\ sem_free(fb_sem)
    /\ fb_sem' = fb_sem - 1
    /\ fb_task' = [fb_task EXCEPT ![i] = "fetching"]
    /\ UNCHANGED <<focus, fb_pc>>
    /\ UNCHANGED notFetchVars

\* fetch_single, lines 68-94: the executor call is over, the records (or [])
\* are returned and the semaphore is released
fetch_single_done(i, o) ==
    /\ focus = "fetch"
    /\ fb_pc = "gathering"
    /\ fb_task[i] = "fetching"
    /\ fb_sem' = fb_sem + 1
    /\ fb_task' = [fb_task EXCEPT ![i] = o]
    /\ UNCHANGED <<focus, fb_pc>>
    /\ UNCHANGED notFetchVars

\* lines 97-101: gather is over
fetch_batch_return ==
    /\ focus = "fetch"
    /\ fb_pc = "gathering"
    /\ \A i \in Tasks : fb_task[i] \in FetchOutcomes
    /\ fb_pc' = "returned"
    /\ UNCHANGED <<focus, fb_task, fb_sem>>
    /\ UNCHANGED notFetchVars

InitFetch ==
    /\ fb_pc = "idle"
    /\ fb_task = [i \in Tasks |-> "none"]
    /\ fb_sem = 0


\* /chat: session ids are "session_<n>", written n; a client may send any of
\* them, or none
MaxSessions == 2

MaxInFlight == 2

SessionIds == 0..(MaxSessions - 1)

Slots == 1..MaxInFlight

NoSession == <<"-">>

NoRequest == [session_id |-> -1, live |-> FALSE]

\* the session ids in _chat_sessions
in_use == {i \in SessionIds : ch_sessions[i] # NoSession}

\* chat.py line 38: f"session_{len(_chat_sessions)}"
new_session_id(sessions) ==
    Cardinality({i \in SessionIds : sessions[i] # NoSession})

\* lines 50-53: history[-4:] when there are more than 4 messages
trimmed(history) ==
    IF Len(history) > 4 THEN SubSeq(history, Len(history) - 3, Len(history))
    ELSE history

\* chat, lines 38-58: up to the await of process_user_query. given is the
\* session_id of the request, -1 for none. A trim stores a new list, and the
\* requests still awaiting on the old list of that session lose their hold.
chat_begin(r, given) ==
    /\ focus = "chat"
    /\ ch_req[r] = NoRequest
    /\ LET session_id == IF given = -1 THEN new_session_id(ch_sessions) ELSE given
           stored == IF ch_sessions[session_id] = NoSession
                     THEN <<>> ELSE ch_sessions[session_id]
           history == Append(stored, "user")
       IN  /\ session_id \in SessionIds
           /\ ch_sessions' = [ch_sessions EXCEPT ![session_id] = trimmed(history)]
           /\ ch_req' = [q \in Slots |->
                            IF q = r THEN [session_id |-> session_id, live |-> TRUE]
                            ELSE IF /\ ch_req[q].session_id = session_id
                                    /\ trimmed(history) # history
                            THEN [ch_req[q] EXCEPT !.live = FALSE]
                            ELSE ch_req[q]]
           /\ ch_last' = [op |-> "chat", given |-> given, session_id |-> session_id,
                          fresh |-> session_id \notin in_use]
    /\ UNCHANGED focus
    /\ UNCHANGED notChatVars

\* chat, lines 60-79: process_user_query is over; the answer is appended to
\* the list the request holds, or the handler answers with the error
chat_end(r, raised) ==
    /\ focus = "chat"
    /\ ch_req[r] # NoRequest
    /\ ch_sessions' =
          IF ch_req[r].live /\ ~raised
          THEN [ch_sessions EXCEPT ![ch_req[r].session_id] = Append(@, "assistant")]
          ELSE ch_sessions
    /\ ch_req' = [ch_req EXCEPT ![r] = NoRequest]
    /\ ch_last' = [op |-> "answer", given |-> ch_req[r].session_id,
                   session_id |-> ch_req[r].session_id, fresh |-> FALSE]
    /\ UNCHANGED focus
    /\ UNCHANGED notChatVars

\* clear_session, lines 81-93
clear_session(session_id) ==
    /\ focus = "chat"
    /\ ch_sessions' = [ch_sessions EXCEPT ![session_id] = NoSession]
    /\ ch_req' = [q \in Slots |->
                    IF ch_req[q].session_id = session_id
                    THEN [ch_req[q] EXCEPT !.live = FALSE] ELSE ch_req[q]]
    /\ ch_last' = [op |-> "clear", given |-> session_id, session_id |-> session_id,
                   fresh |-> FALSE]
    /\ UNCHANGED focus
    /\ UNCHANGED notChatVars

InitChat ==
    /\ ch_sessions = [i \in SessionIds |-> NoSession]
    /\ ch_req = [r \in Slots |-> NoRequest]
    /\ ch_last = [op |-> "none", given |-> -1, session_id |-> -1, fresh |-> FALSE]


\* news_summarizer: time in seconds
_min_interval == 2

\* batch_summarize_articles, line 246: asyncio.Semaphore(3)
summarize_limit == 3

NumArticles == 3

Summaries == 1..NumArticles

\* "batch": summarize_article under the semaphore of batch_summarize_articles,
\* "article": summarize_article on its own, "direct": summarize_article_direct
Vias == {"batch", "article", "direct"}

\* how long extract_article_text and generate_content block
Durations == 0.._min_interval

\* generate_content returns a summary, or raises (a 429 or any other error)
LlmOutcomes == {"summary", "rate_limit", "error"}

NewSummary == [pc |-> "new", via |-> "-", wake |-> 0]

\* lines 80-82 and 165-167: the time to sleep before going on, 0 for none
sleep_needed(t, last) ==
    IF t - last < _min_interval THEN _min_interval - (t - last) ELSE 0

\* lines 84-152 and 169-236, one uninterrupted run of the event loop: the
\* text is extracted (nothing to extract for summarize_article_direct), no
\* usable text returns None; generate_content is called, and only a call
\* that returns sets _last_api_call. The semaphore is given back on return.
summarize_body(i, via, text, d_extract, d_call, outcome) ==
    LET call_at == sm_now + (IF via = "direct" THEN 0 ELSE d_extract)
        back_at == IF text THEN call_at + d_call ELSE call_at
    IN  /\ back_at <= MaxTime
        /\ sm_now' = back_at
        /\ sm_calls' = IF text THEN Append(sm_calls, call_at) ELSE sm_calls
        /\ sm_last' = IF text /\ outcome = "summary" THEN back_at ELSE sm_last
        /\ sm_task' = [sm_task EXCEPT ![i] = [pc |-> "done", via |-> via, wake |-> 0]]

\* summarize_article / summarize_article_direct up to the first await: the
\* semaphore is taken (batch), and the coroutine sleeps or goes straight on
summarize_begin(i, via, text, d_extract, d_call, outcome) ==
    /\ focus = "summary"
    /\ sm_task[i].pc = "new"
    /\ via = "batch" => sm_sem > 0
    /\ IF sleep_needed(sm_now, sm_last) > 0
       THEN /\ sm_task' = [sm_task EXCEPT ![i] =
                    [pc |-> "sleeping", via |-> via,
                     wake |-> sm_now + sleep_needed(sm_now, sm_last)]]
            /\ sm_sem' = IF via = "batch" THEN sm_sem - 1 ELSE sm_sem
            /\ UNCHANGED <<sm_now, sm_last, sm_calls>>
       ELSE /\ summarize_body(i, via, text, d_extract, d_call, outcome)
            /\ UNCHANGED sm_sem
    /\ UNCHANGED focus
    /\ UNCHANGED notSummaryVars

\* asyncio.sleep is over: the coroutine goes on without looking at
\* _last_api_call again
summarize_wake(i, text, d_extract, d_call, outcome) ==
    /\ focus = "summary"
    /\ sm_task[i].pc = "sleeping"
    /\ sm_now >= sm_task[i].wake
    /\ summarize_body(i, sm_task[i].via, text, d_extract, d_call, outcome)
    /\ sm_sem' = IF sm_task[i].via = "batch" THEN sm_sem + 1 ELSE sm_sem
    /\ UNCHANGED focus
    /\ UNCHANGED notSummaryVars

\* a second passes while the event loop is idle or runs something else
summary_tick ==
    /\ focus = "summary"
    /\ sm_now < MaxTime
    /\ sm_now' = sm_now + 1
    /\ UNCHANGED <<sm_last, sm_sem, sm_task, sm_calls>>
    /\ UNCHANGED focus
    /\ UNCHANGED notSummaryVars

\* _last_api_call = 0 (line 19) and time.time() far beyond _min_interval
InitSummary ==
    /\ sm_now = _min_interval
    /\ sm_last = 0
    /\ sm_sem = summarize_limit
    /\ sm_task = [i \in Summaries |-> NewSummary]
    /\ sm_calls = <<>>


\* /news/article/embed. A URL is written [stem, length]: the first `length`
\* characters of the text `stem`; two stems share no prefix.
url_column == 1000

retry_column == 512

MaxEmbeds == 2

EmbedSlots == 1..MaxEmbeds

Stems == {"a", "b"}

\* canonical URLs that fit both columns, only the first, neither
UrlLengths == {retry_column - 212, url_column - 300, url_column + 200}

LongUrls == [stem : Stems, length : UrlLengths]

NoEmbed == [pc |-> "none", canonical |-> [stem |-> "-", length |-> 0]]

\* canonical[:n]
sliced(canonical, n) ==
    IF canonical.length > n THEN [canonical EXCEPT !.length = n] ELSE canonical

\* session.query(NewsArticle).filter(NewsArticle.url == canonical).first()
existing(store, canonical) == \E row \in store : row.url = canonical

\* session.add + session.commit against url = Column(unique=True): the row
\* is stored, or the commit raises and nothing is stored
committed(store, row) ==
    IF \E other \in store : other.url = row.url THEN store ELSE store \cup {row}

\* embed_article_endpoint and process_and_embed_article up to the first
\* await (summarize_article or create_embedding): both look the canonical
\* URL up, and an article that is found, a link that is refused or a text
\* that is too short ends the request
embed_article_endpoint(r, canonical, accepted) ==
    /\ focus = "embed"
    /\ em_req[r] = NoEmbed
    /\ em_req' = IF existing(em_store, canonical) \/ ~accepted
                 THEN em_req
                 ELSE [em_req EXCEPT ![r] = [pc |-> "embedding", canonical |-> canonical]]
    /\ UNCHANGED em_store
    /\ UNCHANGED focus
    /\ UNCHANGED notEmbedVars

\* process_and_embed_article, lines 362-400: the row is saved with
\* canonical[:1000]; when that commit raises, it is saved with
\* canonical[:512]; when that raises too, the request fails
process_and_embed_article(r) ==
    /\ focus = "embed"
    /\ em_req[r].pc = "embedding"
    /\ LET canonical == em_req[r].canonical
           first == [url |-> sliced(canonical, url_column), canonical |-> canonical]
           minimal == [url |-> sliced(canonical, retry_column), canonical |-> canonical]
           saved == committed(em_store, first)
       IN  em_store' = IF saved # em_store THEN saved ELSE committed(em_store, minimal)
    /\ em_req' = [em_req EXCEPT ![r] = NoEmbed]
    /\ UNCHANGED focus
    /\ UNCHANGED notEmbedVars

InitEmbed ==
    /\ em_store = {}
    /\ em_req = [r \in EmbedSlots |-> NoEmbed]

InitGold ==
    /\ gold_in = [vn |-> [kind |-> "none", p24 |-> 0, p22 |-> 0, p18 |-> 0],
                  international |-> [kind |-> "none", price |-> 0]]
    /\ gold_ret = NoGold

\* the stateless services at rest
InitServices ==
    /\ InitGold
    /\ InitDedupe
    /\ InitNorm
    /\ InitRetry
    /\ InitFlow
    /\ InitFetch
    /\ InitChat
    /\ InitSummary
    /\ InitEmbed

Init == focus \in {"eod", "us", "vn"} /\ InitState /\ InitNews({}) /\ InitServices

Next ==
    \/ \E k \in Symbols, o \in EodOutcomes : get_eod_data(k, o)
    \/ startup_event
    \/ \E q \in Requests : \E o \in BatchOutcomesFor(batch_uncached(q)) :
            get_batch_latest_eod(q, o)
    \/ \E k \in Symbols : \E o \in BatchOutcomesFor(batch_uncached(<<k>>)) :
            get_us_stock_price(k, o)
    \/ \E q \in Requests : \E o \in BatchOutcomesFor(batch_uncached(us_uncached(q))) :
            get_multiple_us_stock_quotes(q, o)
    \/ \E k \in Symbols :
         \E o \in BoardOutcomesFor(IF _get_cached_quote(k) \/ db_recent(k)
                                   THEN <<>> ELSE <<k>>), c \in BOOLEAN :
            get_latest_stock_price(k, o, c)
    \/ \E q \in Requests : \E o \in BoardOutcomesFor(vn_uncached(q)) :
            get_multiple_vn_stock_quotes(q, o)
    \/ \E t \in Times(focus) : Advance(t)

Spec == Init /\ [][Next]_vars

InitLimiter == focus = "limiter" /\ InitState /\ InitNews({}) /\ InitServices

NextLimiter ==
    \/ \E t \in Threads : Call(t)
    \/ \E t \in Threads : Enter(t)
    \/ \E t \in Threads : Wake1(t)
    \/ \E t \in Threads : Wake2(t)
    \/ get_status
    \/ Tick

SpecLimiter == InitLimiter /\ [][NextLimiter]_vars

\* fair scheduling: time passes, a sleep that has run out ends, and a thread
\* blocked on the lock gets it if it is free again and again
FairLimiter ==
    /\ SpecLimiter
    /\ WF_vars(Tick)
    /\ \A t \in Threads : /\ WF_vars(Wake1(t))
                          /\ WF_vars(Wake2(t))
                          /\ SF_vars(Enter(t))

NewsActions ==
    \/ \E q \in Queries, m \in 1..MaxResults : search_news(q, m)
    \/ \E o \in TavilyOutcomes, f \in BOOLEAN : tavily_done(o, f)
    \/ \E u \in SecondaryOutcomes("NEWSDATA_API_KEY"), f \in BOOLEAN :
            newsdata_done(u, f)
    \/ \E u \in SecondaryOutcomes("NEWSAPI_KEY"), f \in BOOLEAN :
            newsapi_done(u, f)

InitNewsSearch ==
    /\ focus = "news"
    /\ InitState
    /\ InitServices
    /\ \E cfg \in SUBSET Keys : InitNews(cfg)

NextNews == NewsActions

SpecNews == InitNewsSearch /\ [][NextNews]_vars

\* the two cascades: a VN quote (cache, VNStock table, price board) and a
\* news search (Tavily, NewsData.io, NewsAPI.org)
InitCascade ==
    \/ focus = "vn" /\ InitState /\ InitNews({}) /\ InitServices
    \/ InitNewsSearch

NextCascade ==
    \/ \E k \in Symbols :
         \E o \in BoardOutcomesFor(IF _get_cached_quote(k) \/ db_recent(k)
                                   THEN <<>> ELSE <<k>>), c \in BOOLEAN :
            get_latest_stock_price(k, o, c)
    \/ \E q \in Requests : \E o \in BoardOutcomesFor(vn_uncached(q)) :
            get_multiple_vn_stock_quotes(q, o)
    \/ focus = "vn" /\ \E t \in Times(focus) : Advance(t)
    \/ NewsActions

SpecCascade == InitCascade /\ [][NextCascade]_vars

InitGoldService ==
    /\ focus = "gold"
    /\ InitState
    /\ InitNews({})
    /\ InitServices

NextGold ==
    \E vo \in VnGoldOutcomes, io \in IntlGoldOutcomes : get_all_gold_prices(vo, io)

SpecGold == InitGoldService /\ [][NextGold]_vars

\* the end-of-day provider with the dates of its payload told apart:
\* the history path and the batch latest-quote path of EODHDService
InitDedupeService ==
    /\ focus = "dedupe"
    /\ InitState
    /\ InitNews({})
    /\ InitServices

\* one call per behaviour: the arguments are drawn when the service is idle
NextDedupe ==
    /\ dd_pc = "idle"
    /\ \E results \in Gathered, max_results \in MaxResultsArgs :
            \/ format_results_call(results, max_results)
            \/ search_news_on_demand(results, max_results)

SpecDedupe == InitDedupeService /\ [][NextDedupe]_vars

InitNormalize ==
    /\ focus = "normalize"
    /\ InitState
    /\ InitNews({})
    /\ InitServices

NextNormalize ==
    /\ nz_kind = "none"
    /\ \/ \E u \in GivenUrls, v \in GivenUrls : canonical_url_pair(u, v)
       \/ \E t \in GivenTitles, u \in GivenTitles : hash_title_pair(t, u)
       \/ \E u \in GivenUrls : embed_canonical(u)

SpecNormalize == InitNormalize /\ [][NextNormalize]_vars

InitRetryService ==
    /\ focus = "retry"
    /\ InitState
    /\ InitNews({})
    /\ InitServices

NextRetry ==
    \/ \E cfg \in RetryConfigs : retry_wrapper_call(cfg)
    \/ \E value \in ReturnValues : retry_attempt_returns(value)
    \/ \E error_msg \in ErrorMessages : retry_attempt_raises(error_msg)

SpecRetry == InitRetryService /\ [][NextRetry]_vars

InitFlowService ==
    /\ focus = "flow"
    /\ InitState
    /\ InitNews({})
    /\ InitServices

NextFlow == fl_op = "none" /\ \E in \in FlowInputs : operation_called(in)

SpecFlow == InitFlowService /\ [][NextFlow]_vars


InitFetchService ==
    /\ focus = "fetch"
    /\ InitState
    /\ InitNews({})
    /\ InitServices

NextFetch ==
    \/ fetch_vn_stock_data_batch
    \/ \E i \in Tasks : fetch_single_start(i)
    \/ \E i \in Tasks, o \in FetchOutcomes : fetch_single_done(i, o)
    \/ fetch_batch_return

SpecFetch == InitFetchService /\ [][NextFetch]_vars

\* the event loop runs every task that can go on, and an executor call ends
FairFetch ==
    /\ SpecFetch
    /\ WF_vars(fetch_batch_return)
    /\ \A i \in Tasks :
        /\ WF_vars(fetch_single_start(i))
        /\ WF_vars(\E o \in FetchOutcomes : fetch_single_done(i, o))


InitChatService ==
    /\ focus = "chat"
    /\ InitState
    /\ InitNews({})
    /\ InitServices

NextChat ==
    \/ \E r \in Slots, given \in SessionIds \cup {-1} : chat_begin(r, given)
    \/ \E r \in Slots, raised \in BOOLEAN : chat_end(r, raised)
    \/ \E session_id \in SessionIds : clear_session(session_id)

SpecChat == InitChatService /\ [][NextChat]_vars


InitSummaryService ==
    /\ focus = "summary"
    /\ InitState
    /\ InitNews({})
    /\ InitServices

NextSummary ==
    \/ \E i \in Summaries : sm_task[i].pc = "new" /\
          \E via \in Vias, text \in BOOLEAN, d_extract, d_call \in Durations,
             outcome \in LlmOutcomes :
                summarize_begin(i, via, text, d_extract, d_call, outcome)
    \/ \E i \in Summaries : sm_task[i].pc = "sleeping" /\
          \E text \in BOOLEAN, d_extract, d_call \in Durations,
             outcome \in LlmOutcomes :
                summarize_wake(i, text, d_extract, d_call, outcome)
    \/ summary_tick

SpecSummary == InitSummaryService /\ [][NextSummary]_vars


InitEmbedService ==
    /\ focus = "embed"
    /\ InitState
    /\ InitNews({})
    /\ InitServices

NextEmbed ==
    \/ \E r \in EmbedSlots, canonical \in LongUrls, accepted \in BOOLEAN :
          embed_article_endpoint(r, canonical, accepted)
    \/ \E r \in EmbedSlots : process_and_embed_article(r)

SpecEmbed == InitEmbedService /\ [][NextEmbed]_vars

InitDates ==
    /\ focus \in {"eod", "dates"}
    /\ InitState
    /\ InitNews({})
    /\ InitServices

NextDates ==
    \/ \E k \in Symbols, o \in EodOutcomes : get_eod_data(k, o)
    \/ \E q \in Requests :
         \E o \in IF batch_uncached(q) = <<>> THEN BatchOutcomesFor(<<>>)
                   ELSE DatedBatchOutcomes :
            get_batch_latest_eod(q, o)
    \/ \E t \in Times(focus) : Advance(t)

SpecDates == InitDates /\ [][NextDates]_vars

----------------------------------------------------------------------------
(* Properties *)

\* the key of a single-key request
ReqKey == req'.syms[1]

\* the file or dict entry f is there and younger than ttl
Fresh(f, ttl) == f.present /\ now - f.mtime < ttl

C2_NegativeEntrySuppressesCalls ==
    [][ ( /\ req'.op = "get_eod_data"
          /\ Fresh(eod_failed[ReqKey], FAILED_CACHE_TTL) )
        => ( /\ calls' = <<>>
             /\ ret'[ReqKey] = None
             /\ eod_failed'[ReqKey] = eod_failed[ReqKey] )
      ]_vars

\* C2 witness: get_eod_data answered None without a call, 900 s after the
\* failure that wrote the failed file
C2_Witness ==
    /\ req.op = "get_eod_data"
    /\ calls = <<>>
    /\ ret[req.syms[1]] = None
    /\ eod_failed[req.syms[1]].present
    /\ now - eod_failed[req.syms[1]].mtime = 900
    /\ ~eod_cache[req.syms[1]].present

BatchOps == {"get_batch_latest_eod", "get_multiple_us_stock_quotes",
             "get_multiple_vn_stock_quotes"}

\* whether symbol s has a valid cache entry for batch operation op, in the
\* state the operation starts from
HasValidEntry(op, s) ==
    CASE op = "get_batch_latest_eod" -> Fresh(latest_cache[s], CACHE_TTL)
      [] op = "get_multiple_us_stock_quotes" ->
            \/ Fresh(us_quote_cache[s], US_cache_ttl)
            \/ Fresh(latest_cache[s], CACHE_TTL)
      [] op = "get_multiple_vn_stock_quotes" -> Fresh(quote_cache[s], _cache_ttl)
      [] OTHER -> FALSE

\* the requested symbols without a valid cache entry, in request order
Missed(op, syms) == SelectSeq(syms, LAMBDA s : ~HasValidEntry(op, s))

C9_EveryRequestedSymbolReported ==
    req.op \in BatchOps => \A s \in Range(req.syms) : ret[s].kind # "absent"

\* C10 as stated: get_batch_latest_eod returns the cached value of every
\* requested symbol that was a valid cache hit, whatever the outcome of the
\* provider call made for the other symbols.
C10_CacheHitsSurviveProviderFailure ==
    [][ req'.op = "get_batch_latest_eod" =>
          \A s \in Range(req'.syms) :
             Fresh(latest_cache[s], CACHE_TTL) =>
                ret'[s] = Data(latest_cache[s].fetched, "latest")
      ]_vars

\* the recorded timestamps inside the window that trails instant n
InWindow(n) == {i \in 1..Len(stamps) : stamps[i] <= n /\ n - stamps[i] < window}

\* C3: at every instant, and at the instant of every recorded call, at most
\* max_requests recorded timestamps lie within the trailing time_window; and
\* every wait_if_needed call that has returned recorded exactly one timestamp.
C3_WindowNeverExceeded ==
    /\ Cardinality(InWindow(clock)) <= max_requests
    /\ \A j \in 1..Len(stamps) : Cardinality(InWindow(stamps[j])) <= max_requests
    /\ Len(stamps) = started - Cardinality({t \in Threads : pc[t] # "idle"})

\* C3 witness: more calls than max_requests were recorded, the window is full,
\* one caller sleeps on the count limit and another is blocked on the lock
C3_Witness ==
    /\ Len(stamps) >= max_requests
    /\ Cardinality(InWindow(clock)) = max_requests
    /\ \E t, u \in Threads : pc[t] = "sleep1" /\ pc[u] = "lock"

C5_MinimumSpacing ==
    \A i \in 1..(Len(stamps) - 1) : stamps[i + 1] - stamps[i] >= min_interval

\* C5 witness: the second call came while the window held one request only
\* and was recorded exactly min_interval after the first
C5_Witness ==
    /\ Len(stamps) >= 2
    /\ max_requests > 1
    /\ stamps[2] - stamps[1] = min_interval

\* the position of a provider in the cascade of search_news
Rank(p) == CASE p = "Tavily" -> 1 [] p = "NewsData.io" -> 2 [] OTHER -> 3

C7_ProvidersStrictlySequential ==
    /\ \A i \in 1..Len(news_log) :
          IF i % 2 = 1
          THEN /\ news_log[i].ev = "call"
               /\ i = Len(news_log) => news_pc = news_log[i].p
          ELSE /\ news_log[i].ev # "call"
               /\ news_log[i].p = news_log[i - 1].p
    /\ \A i, j \in 1..Len(news_log) :
          (i < j /\ news_log[i].ev = "call" /\ news_log[j].ev = "call")
             => Rank(news_log[i].p) < Rank(news_log[j].p)
    /\ news_pc = "idle" => Len(news_log) % 2 = 0

\* C7 witness: one search called all three providers, each after the one
\* before it had completed, and has returned
C7_Witness ==
    /\ news_pc = "idle"
    /\ Len(news_log) = 6
    /\ news_log[1].p = "Tavily"
    /\ news_log[3].p = "NewsData.io"
    /\ news_log[5].p = "NewsAPI.org"

\* C11: whatever the two gold providers do, the domestic list of
\* get_all_gold_prices is not empty, and whenever the live domestic provider
\* failed it is the static estimate, every record of it marked with source
\* "Fallback (Estimated)", in a dict without an "error" key.
C11_DomesticGoldNeverEmpty ==
    gold_in.vn.kind # "none" =>
       /\ gold_ret.vn # <<>>
       /\ gold_in.vn.kind \in VnGoldFailures =>
             /\ gold_ret.vn = <<GoldRecord("Fallback (Estimated)", "24K",
                                           (fallback_24k * 10) \div 375)>>
             /\ \A i \in 1..Len(gold_ret.vn) :
                   gold_ret.vn[i].source = "Fallback (Estimated)"
             /\ ~gold_ret.error

\* C11 witness: the domestic provider answered 200 with a price field that
\* is no number, the international one failed, and the estimate was returned
C11_Witness ==
    /\ gold_in.vn.kind = "bad_number"
    /\ gold_in.international.kind = "exception"
    /\ Len(gold_ret.vn) = 1
    /\ gold_ret.vn[1].source = "Fallback (Estimated)"
    /\ gold_ret.vn[1].buy_price > 0
    /\ gold_ret.international = <<>>

\* C12 as stated: no payload dated before 2000 is stored as a positive
\* cache entry or returned as a quote, by get_eod_data or by
\* get_batch_latest_eod; the response is treated as a failure (None).
C12_NoPre2000PayloadKept ==
    \A s \in Symbols :
       /\ eod_cache[s].present => eod_cache[s].shape \in {"eod", "eod_missing_column"}
       /\ latest_cache[s].present => latest_cache[s].shape # "latest_1970"
       /\ req.op \in {"get_eod_data", "get_batch_latest_eod"} =>
             ret[s] \notin {Data(t, "latest_1970") : t \in Times(focus)}

----------------------------------------------------------------------------
(* News deduplication *)

\* C13: the result list of the news search (_format_results followed by the
\* /news/search filter) never holds two records with the same canonical url
\* or the same normalized-title hash.
C13_NoDuplicateInAnswer ==
    dd_pc = "answered" =>
        /\ \A i \in 1..Len(dd_out) :
                \E a \in Range(dd_in) : dd_out[i] = answered(a)
        /\ \A i, j \in 1..Len(dd_out) :
                i # j => /\ dd_out[i].url # dd_out[j].url
                         /\ hash_title(dd_out[i].title) # hash_title(dd_out[j].title)

\* two records that differ in url and in title as gathered, with one canonical
\* url, were gathered and one of them was answered
C13_Witness ==
    /\ dd_pc = "answered"
    /\ Len(dd_in) = 2
    /\ dd_in[1].url # dd_in[2].url
    /\ canonical_url(dd_in[1].url) = canonical_url(dd_in[2].url)
    /\ dd_in[1].title # dd_in[2].title
    /\ Len(dd_fmt) = 2
    /\ Len(dd_out) = 1

\* two gathered records the router takes for one: lines 120-129
Dup(a, b) ==
    \/ canonical_url(a.url) = canonical_url(b.url)
    \/ hash_title(a.title) = hash_title(b.title)

\* a gathered record no filter of its own removes
eligible(a) == a.content = "long" /\ is_valid_article_url(canonical_url(a.url))

\* the published dates of the gathered records can all be compared
comparable == \A a, b \in Range(dd_in) : a.date.aware = b.date.aware

\* dd_in[i] is read before dd_in[j]: the newer date first, the gathered
\* (provider) order between equal dates and when the dates do not compare
before(i, j) ==
    IF comparable
    THEN \/ dd_in[i].date.day > dd_in[j].date.day
         \/ dd_in[i].date.day = dd_in[j].date.day /\ i < j
    ELSE i < j

less_one_prefix(prefixes) ==
    {prefixes} \cup (IF prefixes = <<>> THEN {} ELSE {Tail(prefixes)})

\* two urls of one page: they differ at most in scheme, one leading host
\* prefix, the case of the host, the query string and a trailing slash
same_page(u, v) ==
    /\ u.path = v.path
    /\ less_one_prefix(u.prefixes) \cap less_one_prefix(v.prefixes) # {}

\* two titles of one headline: they differ at most in letter case,
\* punctuation marks and the length of the runs of blanks
same_headline(t, u) ==
    collapse(SelectSeq(title_lower(t), LAMBDA c : c # "!"))
        = collapse(SelectSeq(title_lower(u), LAMBDA c : c # "!"))

\* C16: canonical_url gives two urls that differ only in scheme, a leading
\* www./m./mobile. prefix, host case, query string or trailing slash the same
\* canonical url, and hash_title gives two titles that differ only in case,
\* punctuation or whitespace runs the same hash.
C16_VariantsNormalizeAlike ==
    /\ nz_kind = "url" /\ same_page(nz_in[1], nz_in[2]) => nz_out[1] = nz_out[2]
    /\ nz_kind = "title" /\ same_headline(nz_in[1], nz_in[2])
            => nz_out[1] = nz_out[2]

----------------------------------------------------------------------------
(* retry_on_error *)

\* C17: the wrapper invokes func at most max_retries times, stops at the
\* first invocation that returns (a None result included, which it hands
\* back at once), and returns None once every attempt has raised.
C17_BoundedRetryStopsAtFirstReturn ==
    /\ Len(rt_log) <= rt_cfg.max_retries
    /\ \A i \in 1..Len(rt_log) :
            rt_log[i].kind = "return" =>
                i = Len(rt_log) /\ rt_pc = "done" /\ rt_ret = rt_log[i].value
    /\ rt_pc = "done" /\ (\A i \in 1..Len(rt_log) : rt_log[i].kind = "raise")
            => Len(rt_log) = rt_cfg.max_retries /\ rt_ret = "None"
    /\ rt_pc = "loop" => rt_ret = "pending"

\* func raised twice and then returned None, which the wrapper handed back
\* without a fourth invocation
C17_Witness ==
    /\ rt_pc = "done"
    /\ rt_cfg.max_retries = 3
    /\ Len(rt_log) = 3
    /\ rt_log[1].kind = "raise" /\ rt_log[2].kind = "raise"
    /\ rt_log[3] = Returned("None")
    /\ rt_ret = "None"

----------------------------------------------------------------------------
(* Exceptions *)

\* C19: the data-acquisition operations never let an exception reach their
\* caller: whatever fails while one runs, it ends in a returned value.
C19_NoOperationRaises ==
    fl_op \in {"get_us_stock_price", "get_multiple_us_stock_quotes",
               "get_latest_stock_price", "get_eod_data", "get_batch_latest_eod",
               "search_news", "get_all_gold_prices"}
        => fl_out.kind = "return"

\* the batch of US quotes met a malformed item: the exception was raised in
\* get_batch_latest_eod, whose handler turned it into a dict of None
C19_Witness ==
    /\ fl_op = "get_multiple_us_stock_quotes"
    /\ ~fl_in.cached
    /\ fl_in.f = "malformed_item"
    /\ fl_out = Returned("quotes_of_None")

\* every provider the operation turned to failed
all_failed(in) ==
    \/ /\ in.op \in {"search_news", "search_news_on_demand"}
       /\ in.tavily = "raise" /\ in.newsdata = "raise" /\ in.newsapi = "raise"
    \/ /\ in.op = "get_eod_data"
       /\ ~in.cached
       /\ in.f \in {"http_error", "timeout", "request_error"}

\* every provider answered, and there was nothing to answer with
empty_success(in) ==
    \/ /\ in.op \in {"search_news", "search_news_on_demand"}
       /\ in.tavily = "empty" /\ in.newsdata = "empty" /\ in.newsapi = "empty"
       /\ ~in.format /\ ~in.filter
    \/ /\ in.op = "get_eod_data"
       /\ ~in.cached
       /\ in.f = "empty_payload"

\* C20: what an operation returns when every provider failed is never what
\* it returns for a successful but empty result.
C20_FailureDistinctFromEmpty ==
    fl_op # "none" /\ all_failed(fl_in) =>
        \A in \in FlowInputs :
            in.op = fl_op /\ empty_success(in) => flow(in) # fl_out


----------------------------------------------------------------------------
(* fetch_vn_stock_data_batch *)

\* C21: within one call at most max_concurrent per-symbol fetches are in
\* flight at any moment, and the fetch of every requested symbol is
\* eventually started and completed.
C21_BoundedFetchesAllComplete ==
    /\ [](Cardinality(in_flight) <= max_concurrent)
    /\ (fb_pc = "gathering" ~>
            (fb_pc = "returned" /\ \A i \in Tasks : fb_task[i] \in FetchOutcomes))

\* the semaphore is used up: max_concurrent fetches run and a task waits
C21_Witness ==
    /\ fb_pc = "gathering"
    /\ Cardinality(in_flight) = max_concurrent
    /\ fb_sem = 0
    /\ \E i \in Tasks : fb_task[i] = "waiting"


----------------------------------------------------------------------------
(* VNStockRateLimiter: the lock *)

\* C22: the lock of the rate limiter is held for the bookkeeping only and
\* never while a caller sleeps, so no other wait_if_needed or get_status
\* call is kept out for the length of a wait.
C22_LockFreeWhileSleeping ==
    \A t \in Threads : pc[t] \in {"sleep1", "sleep2"} => lock # t


----------------------------------------------------------------------------
(* Startup pruning *)

\* C23: the startup pruning deletes exactly the negative entries older than
\* 30 minutes and changes no younger negative entry and no positive entry.
C23_StartupPrunesOnlyOldFailures ==
    [][ req'.op = "startup_event" =>
            /\ \A k \in Symbols :
                 IF eod_failed[k].present /\ now - eod_failed[k].mtime > 30 * 60
                 THEN ~eod_failed'[k].present
                 ELSE eod_failed'[k] = eod_failed[k]
            /\ eod_cache' = eod_cache
            /\ latest_cache' = latest_cache ]_vars

\* the startup found a failure marker older than 30 minutes and unlinked it,
\* and kept one that was not
C23_Witness ==
    /\ req.op = "startup_event"
    /\ \E k \in Symbols : ret[k] = Unlinked /\ ~eod_failed[k].present
    /\ \E k \in Symbols : eod_failed[k].present /\ now - eod_failed[k].mtime <= 1800


----------------------------------------------------------------------------
(* /chat *)

\* C24: after any sequence of /chat/message requests the history stored for
\* a session holds at most 4 messages.
C24_HistoryAtMostFour ==
    \A i \in SessionIds :
        ch_sessions[i] # NoSession /\ (\A r \in Slots : ch_req[r] = NoRequest)
            => Len(ch_sessions[i]) <= 4


\* C28: a chat request sent without a session_id is given a session id that
\* is not in use, so its history starts empty and is shared with no
\* existing session.
C28_NewSessionIdUnused ==
    ch_last.op = "chat" /\ ch_last.given = -1 => ch_last.fresh


----------------------------------------------------------------------------
(* news_summarizer *)

\* C25: any two calls of the LLM made through summarize_article or
\* summarize_article_direct start at least _min_interval seconds apart, also
\* when batch_summarize_articles runs summarizations concurrently.
C25_CallsMinIntervalApart ==
    \A a, b \in DOMAIN sm_calls :
        a < b => sm_calls[b] - sm_calls[a] >= _min_interval


----------------------------------------------------------------------------
(* /news/article/embed *)

\* C26: after any interleaving of embed requests, concurrent requests for
\* one article and URLs longer than the stored column included, the store
\* holds at most one NewsArticle per canonical URL.
C26_OneArticlePerCanonicalUrl ==
    \A row, other \in em_store :
        row.canonical = other.canonical => row = other


----------------------------------------------------------------------------
(* canonical_url in the embed requests *)

\* C27: canonical_url is idempotent, so the URL that embed_article_endpoint
\* looks up is the URL that process_and_embed_article canonicalizes again
\* and stores.
C27_CanonicalUrlIdempotent ==
    nz_kind = "embed" => nz_out[2] = nz_out[1]


----------------------------------------------------------------------------
(* the fields of a quote *)

\* C29: a quote served from the in-memory quote cache has the same set of
\* fields as the quote the same operation returns on a cache miss, for any
\* interleaving of single-quote requests (get_latest_stock_price,
\* get_us_stock_price) and batch-quote requests
\* (get_multiple_vn_stock_quotes, get_multiple_us_stock_quotes).
C29_CachedQuoteHasOwnFields ==
    own_shape(req.op) # "-" =>
        \A s \in Range(req.syms) :
            ret[s].kind = "data" => fields(ret[s].shape) = fields(own_shape(req.op))


----------------------------------------------------------------------------
(* search_news: short answers *)

\* the provider was called during the search_news of news_log
attempted(p) == \E i \in 1..Len(news_log) : news_log[i] = CallEvent(p)

\* C30: when search_news returns fewer than max_results records, every
\* configured and eligible provider (Tavily, NewsData.io and, for a query
\* that is not Vietnamese, NewsAPI.org) was attempted during that request.
C30_ShortAnswerTriedEveryProvider ==
    ( news_pc = "idle" /\ news_log # <<>> /\ Len(news_ret) < news_max ) =>
        /\ "TAVILY_API_KEY" \in news_cfg => attempted("Tavily")
        /\ "NEWSDATA_API_KEY" \in news_cfg => attempted("NewsData.io")
        /\ ( "NEWSAPI_KEY" \in news_cfg /\ ~is_vietnamese(news_query) )
              => attempted("NewsAPI.org")

============================================================================
